---- MODULE Spec2Model ----
(***************************************************************************)
(* Field renderer registry of the location map widget, with its URL       *)
(* configuration parser, its widget store and the rate limiter of the      *)
(* example Google Sheets proxy.                                            *)
(*                                                                         *)
(* JavaScript strings are modelled as sequences of one-character strings,  *)
(* so that toLowerCase, trim, split and the regular expressions of          *)
(* detection.ts are computed character by character.                       *)
(***************************************************************************)
EXTENDS Integers, Naturals, Sequences, FiniteSets, TLC

VARIABLES explicitRenderers, autoDetectEnabled, lastCall,
          rateLimiter, clock, admitted, store

\* The proxy's rate limiter Map, the value of Date.now(), the admitted
\* requests of the current window per client (history, kept for the
\* properties only) and the state object of the widget store
serviceVars == <<rateLimiter, clock, admitted, store>>

vars == <<explicitRenderers, autoDetectEnabled, lastCall, serviceVars>>

(***************************************************************************)
(* Characters and string primitives                                        *)
(***************************************************************************)
UpperLetters ==
  <<"A","B","C","D","E","F","G","H","I","J","K","L","M",
    "N","O","P","Q","R","S","T","U","V","W","X","Y","Z">>

LowerLetters ==
  <<"a","b","c","d","e","f","g","h","i","j","k","l","m",
    "n","o","p","q","r","s","t","u","v","w","x","y","z">>

DigitChars == <<"0","1","2","3","4","5","6","7","8","9">>

IsUpper(c) == \E i \in 1..26 : UpperLetters[i] = c

IsLower(c) == \E i \in 1..26 : LowerLetters[i] = c

IsLetter(c) == IsUpper(c) \/ IsLower(c)

IsDigit(c) == \E i \in 1..10 : DigitChars[i] = c

IsSpace(c) == c \in {" ", "\t", "\n"}

toLowerChar(c) ==
  IF IsUpper(c) THEN LowerLetters[CHOOSE i \in 1..26 : UpperLetters[i] = c]
  ELSE c

SetMin(S) == CHOOSE x \in S : \A y \in S : x <= y

SetMax(S) == CHOOSE x \in S : \A y \in S : x >= y

trim(s) ==
  LET keep == {i \in 1..Len(s) : ~IsSpace(s[i])}
  IN  IF keep = {} THEN << >> ELSE SubSeq(s, SetMin(keep), SetMax(keep))

\* Mutant of toLowerCase: the name is trimmed as well as lowercased
toLowerCase_trimmed(s) ==
  LET f == [i \in 1..Len(s) |-> toLowerChar(s[i])]
  IN  trim(SubSeq(f, 1, Len(s)))

toLowerCase(s) ==
  LET f == [i \in 1..Len(s) |-> toLowerChar(s[i])]
  IN  SubSeq(f, 1, Len(s))

startsWith(s, p) == Len(s) >= Len(p) /\ SubSeq(s, 1, Len(p)) = p

endsWith(s, p) == Len(s) >= Len(p) /\ SubSeq(s, Len(s) - Len(p) + 1, Len(s)) = p

includes(s, c) == \E i \in 1..Len(s) : s[i] = c

RECURSIVE split(_, _)
split(s, sep) ==
  LET hits == {i \in 1..Len(s) : s[i] = sep}
  IN  IF hits = {} THEN << s >>
      ELSE LET p == SetMin(hits)
           IN  << SubSeq(s, 1, p - 1) >> \o split(SubSeq(s, p + 1, Len(s)), sep)

RECURSIVE natToString(_)
natToString(n) ==
  IF n < 10 THEN << DigitChars[n + 1] >>
  ELSE natToString(n \div 10) \o << DigitChars[(n % 10) + 1] >>

numberToString(n) == IF n < 0 THEN << "-" >> \o natToString(0 - n) ELSE natToString(n)

(***************************************************************************)
(* JavaScript values.  A value is a record with a kind k, a string payload *)
(* s (kind "string"), an identity id (functions and objects), a boolean b, *)
(* a number n and the elements a of a native array (kind "array").         *)
(***************************************************************************)
JsString(s) ==
  [k |-> "string", s |-> s, id |-> "", b |-> FALSE, n |-> 0, a |-> << >>]

JsFunction(id) ==
  [k |-> "function", s |-> << >>, id |-> id, b |-> FALSE, n |-> 0, a |-> << >>]

JsObject(id) ==
  [k |-> "object", s |-> << >>, id |-> id, b |-> FALSE, n |-> 0, a |-> << >>]

JsBoolean(b) ==
  [k |-> "boolean", s |-> << >>, id |-> "", b |-> b, n |-> 0, a |-> << >>]

JsNumber(n) ==
  [k |-> "number", s |-> << >>, id |-> "", b |-> FALSE, n |-> n, a |-> << >>]

JsArray(elements) ==
  [k |-> "array", s |-> << >>, id |-> "", b |-> FALSE, n |-> 0, a |-> elements]

JsUndefined ==
  [k |-> "undefined", s |-> << >>, id |-> "", b |-> FALSE, n |-> 0, a |-> << >>]

JsNull ==
  [k |-> "null", s |-> << >>, id |-> "", b |-> FALSE, n |-> 0, a |-> << >>]

\* JavaScript truthiness, as used by `if (explicit)`, `if (standardType)`,
\* `if (!builtin)` and `standardMappings[...] || null`.
Truthy(x) ==
  CASE x.k = "undefined" -> FALSE
    [] x.k = "null"      -> FALSE
    [] x.k = "string"    -> x.s # << >>
    [] x.k = "boolean"   -> x.b
    [] x.k = "number"    -> x.n # 0
    [] OTHER             -> TRUE

\* String(value) for the three primitive kinds a field value may hold.
String(v) ==
  CASE v.k = "string"  -> v.s
    [] v.k = "boolean" -> IF v.b THEN <<"t","r","u","e">> ELSE <<"f","a","l","s","e">>
    [] v.k = "number"  -> numberToString(v.n)

(***************************************************************************)
(* BuiltInRendererType: the six type names                                 *)
(***************************************************************************)
TypeText == <<"t","e","x","t">>

TypeUrl == <<"u","r","l">>

TypeEmail == <<"e","m","a","i","l">>

TypePhone == <<"p","h","o","n","e">>

TypeArray == <<"a","r","r","a","y">>

TypeBoolean == <<"b","o","o","l","e","a","n">>

BuiltInRendererType == {TypeText, TypeUrl, TypeEmail, TypePhone, TypeArray, TypeBoolean}

(***************************************************************************)
(* detection.ts                                                            *)
(***************************************************************************)
IsAlnum(c) == IsLetter(c) \/ IsDigit(c)

\* /^[a-z0-9]([a-z0-9-]*[a-z0-9])?(\.[a-z]{2,})+/i : a match of the prefix
\* exists iff some label value[1..k] is followed by a dot and two letters.
MatchesDomainPrefix(value) ==
  \E k \in 1..Len(value) :
    /\ IsAlnum(value[1])
    /\ IsAlnum(value[k])
    /\ \A j \in 2..(k - 1) : IsAlnum(value[j]) \/ value[j] = "-"
    /\ Len(value) >= k + 3
    /\ value[k + 1] = "."
    /\ IsLetter(value[k + 2])
    /\ IsLetter(value[k + 3])

\* /^https?:\/\//i
HasProtocol(value) ==
  \/ startsWith(toLowerCase(value), <<"h","t","t","p",":","/","/">>)
  \/ startsWith(toLowerCase(value), <<"h","t","t","p","s",":","/","/">>)

\* Mutant of isUrl: the bare-domain rule does not exclude email addresses
isUrl_keepsEmails(value) ==
  IF HasProtocol(value) THEN TRUE
  ELSE IF startsWith(toLowerCase(value), <<"w","w","w",".">>) THEN TRUE
  ELSE MatchesDomainPrefix(value)

isUrl(value) ==
  IF HasProtocol(value) THEN TRUE
  ELSE IF startsWith(toLowerCase(value), <<"w","w","w",".">>) THEN TRUE
  ELSE IF MatchesDomainPrefix(value) THEN ~includes(value, "@")
  ELSE FALSE

\* /^[^\s@]+@[^\s@]+\.[^\s@]+$/
isEmail(value) ==
  /\ \A i \in 1..Len(value) : ~IsSpace(value[i])
  /\ Cardinality({i \in 1..Len(value) : value[i] = "@"}) = 1
  /\ LET at == CHOOSE i \in 1..Len(value) : value[i] = "@"
     IN  /\ at >= 2
         /\ \E q \in (at + 2)..(Len(value) - 1) : value[q] = "."

digitCountOf(value) == Cardinality({i \in 1..Len(value) : IsDigit(value[i])})

\* Mutant of isPhone: six digits are enough
isPhone_sixDigits(value) ==
  LET digitCount == digitCountOf(value)
  IN  IF digitCount < 6 \/ digitCount > 15 THEN FALSE
      ELSE IF 2 * digitCount < Len(value) THEN FALSE
      ELSE \A i \in 1..Len(value) :
             IsDigit(value[i]) \/ IsSpace(value[i]) \/ value[i] \in {"-", "(", ")", "+", "."}

isPhone(value) ==
  LET digitCount == digitCountOf(value)
  IN  IF digitCount < 7 \/ digitCount > 15 THEN FALSE
      ELSE IF 2 * digitCount < Len(value) THEN FALSE
      ELSE \A i \in 1..Len(value) :
             IsDigit(value[i]) \/ IsSpace(value[i]) \/ value[i] \in {"-", "(", ")", "+", "."}

IsQuote(c) == c \in {"'", "\""}

IsAllDigits(p) == Len(p) >= 1 /\ \A i \in 1..Len(p) : IsDigit(p[i])

\* Mutant of isArrayString: a comma list of numbers counts as a list
isArrayString_numbersToo(value) ==
  IF /\ Len(value) >= 4
     /\ value[1] = "["
     /\ IsQuote(value[2])
     /\ IsQuote(value[Len(value) - 1])
     /\ value[Len(value)] = "]"
     /\ \A i \in 1..Len(value) : value[i] # "\n"
  THEN TRUE
  ELSE IF \E p \in 2..(Len(value) - 1) :
            /\ value[p] = ","
            /\ \A j \in 1..(p - 1) : value[j] # ","
            /\ value[p + 1] # ","
  THEN LET raw == split(value, ",")
       IN  Len(raw) >= 2 /\ \A i \in 1..Len(raw) : Len(trim(raw[i])) > 0
  ELSE FALSE

isArrayString(value) ==
  \* /^\[['"].*['"]\]$/
  IF /\ Len(value) >= 4
     /\ value[1] = "["
     /\ IsQuote(value[2])
     /\ IsQuote(value[Len(value) - 1])
     /\ value[Len(value)] = "]"
     /\ \A i \in 1..Len(value) : value[i] # "\n"
  THEN TRUE
  \* /^[^,]+,\s*[^,]+/
  ELSE IF \E p \in 2..(Len(value) - 1) :
            /\ value[p] = ","
            /\ \A j \in 1..(p - 1) : value[j] # ","
            /\ value[p + 1] # ","
  THEN LET raw == split(value, ",")
           parts == [i \in 1..Len(raw) |-> trim(raw[i])]
       IN  /\ Len(parts) >= 2
           /\ \A i \in 1..Len(parts) : Len(parts[i]) > 0
           /\ ~(\A i \in 1..Len(parts) : IsAllDigits(parts[i]))
  ELSE FALSE

BooleanStrings ==
  { <<"t","r","u","e">>, <<"f","a","l","s","e">>, <<"y","e","s">>,
    <<"n","o">>, <<"1">>, <<"0">> }

\* Mutant of isBooleanString: the comparison is case-sensitive
isBooleanString_caseSensitive(value) == value \in BooleanStrings

isBooleanString(value) == toLowerCase(value) \in BooleanStrings

\* A DetectionResult, or null (found = FALSE).  Confidence is in hundredths.
Detection(type, confidence) == [found |-> TRUE, type |-> type, confidence |-> confidence]

NoDetection == [found |-> FALSE, type |-> << >>, confidence |-> 0]

\* The pattern tests of detectFieldType on the trimmed string form
detectPatterns(strValue) ==
  IF strValue = << >> THEN NoDetection
  ELSE IF isUrl(strValue) THEN Detection(TypeUrl, 95)
  ELSE IF isEmail(strValue) THEN Detection(TypeEmail, 90)
  ELSE IF isArrayString(strValue) THEN Detection(TypeArray, 85)
  ELSE IF isPhone(strValue) THEN Detection(TypePhone, 70)
  ELSE IF isBooleanString(strValue) THEN Detection(TypeBoolean, 80)
  ELSE NoDetection

\* Mutant of detectFieldType: the value is coerced to a string before the
\* native boolean test, so a native boolean reaches the pattern tests
detectFieldType_coerceFirst(value) == detectPatterns(trim(String(value)))

\* Mutant of detectFieldType: the array test runs before the url and email
\* tests
detectFieldType_arrayFirst(value) ==
  IF value.k = "boolean" THEN Detection(TypeBoolean, 100)
  ELSE LET strValue == trim(String(value))
       IN  IF strValue = << >> THEN NoDetection
           ELSE IF isArrayString(strValue) THEN Detection(TypeArray, 85)
           ELSE detectPatterns(strValue)

detectFieldType(value) ==
  IF value.k = "boolean" THEN Detection(TypeBoolean, 100)
  ELSE LET strValue == trim(String(value))
       IN  IF strValue = << >> THEN NoDetection
           ELSE IF isUrl(strValue) THEN Detection(TypeUrl, 95)
           ELSE IF isEmail(strValue) THEN Detection(TypeEmail, 90)
           ELSE IF isArrayString(strValue) THEN Detection(TypeArray, 85)
           ELSE IF isPhone(strValue) THEN Detection(TypePhone, 70)
           ELSE IF isBooleanString(strValue) THEN Detection(TypeBoolean, 80)
           ELSE NoDetection

(***************************************************************************)
(* JSON.parse of a bracket-delimited text.  The modelled fragment is a     *)
(* flat array of string literals without escapes, integers and the         *)
(* literals true, false and null; any other text is a SyntaxError          *)
(* (ok = FALSE).  Each element is returned as String(item).               *)
(***************************************************************************)
IsJsonSpace(c) == c \in {" ", "\t", "\n"}

skipSpace(t, pos) ==
  LET stops == {i \in pos..Len(t) : ~IsJsonSpace(t[i])}
  IN  IF stops = {} THEN Len(t) + 1 ELSE SetMin(stops)

IsJsonInteger(tok) ==
  LET body == IF Len(tok) >= 1 /\ tok[1] = "-" THEN Tail(tok) ELSE tok
  IN  /\ IsAllDigits(body)
      /\ (Len(body) = 1 \/ body[1] # "0")

jsonLiteralToString(tok) ==
  IF tok = <<"-","0">> THEN <<"0">> ELSE tok

JsonFail == [ok |-> FALSE, items |-> << >>]

RECURSIVE jsonElements(_, _, _)
jsonElements(t, from, acc) ==
  LET pos == skipSpace(t, from)
  IN  IF pos > Len(t) THEN JsonFail
      ELSE IF t[pos] = "\""
      THEN LET closes == {i \in (pos + 1)..Len(t) : t[i] = "\""}
           IN  IF closes = {} THEN JsonFail
               ELSE LET q == SetMin(closes)
                        body == SubSeq(t, pos + 1, q - 1)
                        next == skipSpace(t, q + 1)
                    IN  IF \E i \in 1..Len(body) : body[i] \in {"\\", "\t", "\n"}
                        THEN JsonFail
                        ELSE IF next > Len(t) THEN JsonFail
                        ELSE IF t[next] = "," THEN jsonElements(t, next + 1, Append(acc, body))
                        ELSE IF t[next] = "]" /\ next = Len(t)
                             THEN [ok |-> TRUE, items |-> Append(acc, body)]
                        ELSE JsonFail
      ELSE LET ends == {i \in pos..Len(t) : t[i] \in {",", "]"} \/ IsJsonSpace(t[i])}
               e == IF ends = {} THEN Len(t) + 1 ELSE SetMin(ends)
               tok == SubSeq(t, pos, e - 1)
               next == skipSpace(t, e)
               valid == \/ tok \in { <<"t","r","u","e">>, <<"f","a","l","s","e">>,
                                     <<"n","u","l","l">> }
                        \/ IsJsonInteger(tok)
           IN  IF ~valid THEN JsonFail
               ELSE IF next > Len(t) THEN JsonFail
               ELSE IF t[next] = ","
                    THEN jsonElements(t, next + 1, Append(acc, jsonLiteralToString(tok)))
               ELSE IF t[next] = "]" /\ next = Len(t)
                    THEN [ok |-> TRUE, items |-> Append(acc, jsonLiteralToString(tok))]
               ELSE JsonFail

\* JSON.parse(t) for a text that starts with '[' and ends with ']'
jsonParseArray(t) ==
  LET pos == skipSpace(t, 2)
  IN  IF pos = Len(t) THEN [ok |-> TRUE, items |-> << >>]
      ELSE jsonElements(t, 2, << >>)

\* trimmed.replace(/'/g, '"')
singleToDoubleQuotes(t) ==
  LET f == [i \in 1..Len(t) |-> IF t[i] = "'" THEN "\"" ELSE t[i]]
  IN  SubSeq(f, 1, Len(t))

trimAll(items) ==
  LET f == [i \in 1..Len(items) |-> trim(items[i])]
  IN  SubSeq(f, 1, Len(items))

commaSeparated(trimmed) ==
  SelectSeq(trimAll(split(trimmed, ",")), LAMBDA item : Len(item) > 0)

\* Mutant of parseArrayString: no second attempt with single quotes
\* converted to double quotes
parseArrayString_noRetry(value) ==
  LET trimmed == trim(value)
  IN  IF startsWith(trimmed, <<"[">>) /\ endsWith(trimmed, <<"]">>)
      THEN LET strict == jsonParseArray(trimmed)
           IN  IF strict.ok THEN trimAll(strict.items) ELSE commaSeparated(trimmed)
      ELSE commaSeparated(trimmed)

parseArrayString(value) ==
  LET trimmed == trim(value)
  IN  IF startsWith(trimmed, <<"[">>) /\ endsWith(trimmed, <<"]">>)
      THEN LET strict == jsonParseArray(trimmed)
           IN  IF strict.ok THEN trimAll(strict.items)
               ELSE LET converted == jsonParseArray(singleToDoubleQuotes(trimmed))
                    IN  IF converted.ok THEN trimAll(converted.items)
                        ELSE commaSeparated(trimmed)
      ELSE commaSeparated(trimmed)

\* Mutant of parseBooleanString: the value is lowercased and not trimmed
parseBooleanString_noTrim(value) ==
  toLowerCase(value) \in { <<"t","r","u","e">>, <<"y","e","s">>, <<"1">> }

parseBooleanString(value) ==
  trim(toLowerCase(value)) \in { <<"t","r","u","e">>, <<"y","e","s">>, <<"1">> }

(***************************************************************************)
(* Property lookup on an object literal: own properties first, then the    *)
(* members every object literal inherits from Object.prototype.            *)
(***************************************************************************)
ObjectPrototypeFunctions ==
  ( <<"c","o","n","s","t","r","u","c","t","o","r">> :> "Object" ) @@
  ( <<"t","o","S","t","r","i","n","g">> :> "Object.prototype.toString" ) @@
  ( <<"t","o","L","o","c","a","l","e","S","t","r","i","n","g">>
      :> "Object.prototype.toLocaleString" ) @@
  ( <<"v","a","l","u","e","O","f">> :> "Object.prototype.valueOf" ) @@
  ( <<"h","a","s","O","w","n","P","r","o","p","e","r","t","y">>
      :> "Object.prototype.hasOwnProperty" ) @@
  ( <<"i","s","P","r","o","t","o","t","y","p","e","O","f">>
      :> "Object.prototype.isPrototypeOf" ) @@
  ( <<"p","r","o","p","e","r","t","y","I","s","E","n","u","m","e","r","a","b","l","e">>
      :> "Object.prototype.propertyIsEnumerable" ) @@
  ( <<"_","_","d","e","f","i","n","e","G","e","t","t","e","r","_","_">>
      :> "Object.prototype.__defineGetter__" ) @@
  ( <<"_","_","d","e","f","i","n","e","S","e","t","t","e","r","_","_">>
      :> "Object.prototype.__defineSetter__" ) @@
  ( <<"_","_","l","o","o","k","u","p","G","e","t","t","e","r","_","_">>
      :> "Object.prototype.__lookupGetter__" ) @@
  ( <<"_","_","l","o","o","k","u","p","S","e","t","t","e","r","_","_">>
      :> "Object.prototype.__lookupSetter__" )

ProtoKey == <<"_","_","p","r","o","t","o","_","_">>

ObjectPrototypeMember(key) ==
  IF key \in DOMAIN ObjectPrototypeFunctions THEN JsFunction(ObjectPrototypeFunctions[key])
  ELSE IF key = ProtoKey THEN JsObject("Object.prototype")
  ELSE JsUndefined

standardMappings ==
  ( <<"w","e","b","s","i","t","e">> :> TypeUrl ) @@
  ( <<"u","r","l">> :> TypeUrl ) @@
  ( <<"l","i","n","k">> :> TypeUrl ) @@
  ( <<"h","o","m","e","p","a","g","e">> :> TypeUrl ) @@
  ( <<"e","m","a","i","l">> :> TypeEmail ) @@
  ( <<"m","a","i","l">> :> TypeEmail ) @@
  ( <<"e","m","a","i","l","a","d","d","r","e","s","s">> :> TypeEmail ) @@
  ( <<"p","h","o","n","e">> :> TypePhone ) @@
  ( <<"t","e","l","e","p","h","o","n","e">> :> TypePhone ) @@
  ( <<"t","e","l">> :> TypePhone ) @@
  ( <<"m","o","b","i","l","e">> :> TypePhone ) @@
  ( <<"c","e","l","l">> :> TypePhone ) @@
  ( <<"f","a","x">> :> TypePhone )

\* fieldName.toLowerCase().replace(/[_\s-]/g, '')
normalizeStandardName(fieldName) ==
  SelectSeq(toLowerCase(fieldName), LAMBDA c : ~(c = "_" \/ IsSpace(c) \/ c = "-"))

\* standardMappings[normalizedName] || null
getStandardFieldRenderer(fieldName) ==
  LET normalizedName == normalizeStandardName(fieldName)
      found == IF normalizedName \in DOMAIN standardMappings
               THEN JsString(standardMappings[normalizedName])
               ELSE ObjectPrototypeMember(normalizedName)
  IN  IF Truthy(found) THEN found ELSE JsNull

(***************************************************************************)
(* Inputs of the model                                                     *)
(***************************************************************************)
NameStatus == <<"S","t","a","t","u","s">>

NameStatusLower == <<"s","t","a","t","u","s">>

NameStatusUpper == <<"S","T","A","T","U","S">>

NameStatusPadded == <<" ","S","t","a","t","u","s"," ">>

NameWebsite == <<"W","e","b","s","i","t","e">>

NameWebSite == <<"w","e","b","_","s","i","t","e">>

NameConstructor == <<"c","o","n","s","t","r","u","c","t","o","r">>

NameNotes == <<"n","o","t","e","s">>

NameContactPhone == <<"c","o","n","t","a","c","t","_","p","h","o","n","e">>

FieldNames ==
  { NameStatus, NameStatusLower, NameStatusUpper, NameStatusPadded, NameWebsite,
    NameWebSite, NameConstructor, NameNotes, NameContactPhone }

\* Field names passed to getRenderer, getRendererType, render and
\* hasExplicitRenderer
CallNames ==
  { NameStatus, NameStatusLower, NameStatusPadded, NameWebsite, NameConstructor,
    NameNotes }

\* Names under which renderers are registered and unregistered
RegisteredNames == { NameStatus, NameStatusLower, NameStatusUpper, NameWebsite }

ValueHello == JsString(<<"h","e","l","l","o">>)

ValueNotAUrl == JsString(<<"n","o","t"," ","a"," ","u","r","l">>)

ValueHttps == JsString(<<"h","t","t","p","s",":","/","/","a",".","i","o">>)

ValueMail == JsString(<<"u","s","e","r","@","e","x",".","c","o","m">>)

ValueList == JsString(<<"R","e","d",","," ","B","l","u","e">>)

ValuePhone == JsString(<<"(","5","5","5",")"," ","1","2","3","-","4","5","6","7">>)

ValueTrue == JsString(<<"t","r","u","e">>)

ValueEmpty == JsString(<< >>)

Values ==
  { ValueHello, ValueNotAUrl, ValueHttps, ValueMail, ValueList, ValuePhone,
    ValueTrue, ValueEmpty, JsNumber(3), JsNumber(0), JsBoolean(TRUE), JsBoolean(FALSE) }

\* Numeric field values: 0 and 1, integers of 1, 2, 6, 7 and 10 digits and
\* negative integers
NumberValues ==
  { JsNumber(n) : n \in {0, 1, 2, 3, 10, -1, 123456, 1234567, 5551234, -5551234,
                         -123456, 2147483647} }

\* Values passed to getRenderer, getRendererType and render
CallValues == { ValueHello, ValueHttps, ValuePhone, JsNumber(3), JsBoolean(TRUE) }

CustomFn == JsFunction("customRenderer")

TagLink == JsString(<<"l","i","n","k">>)

TagProto == JsString(ProtoKey)

TagToString == JsString(<<"t","o","S","t","r","i","n","g">>)

TagEmpty == JsString(<< >>)

\* FieldRendererConfigValue, and the strings a JavaScript caller can pass
Configs ==
  { JsString(TypeUrl), JsString(TypeEmail), CustomFn, TagLink, TagProto, TagToString,
    TagEmpty }

\* The detector and the standard-field mapper are pure: their results on
\* the inputs of the model are tabulated once.
detectionOf == [v \in Values \cup NumberValues |-> detectFieldType(v)]

standardRendererOf == [f \in FieldNames |-> getStandardFieldRenderer(f)]

lowerCaseOf == [f \in FieldNames |-> toLowerCase(f)]

Locations == {"locA", "locB"}

Option(renderers, autoDetect) == [renderers |-> renderers, autoDetect |-> autoDetect]

Options ==
  { Option(<< >>, JsUndefined),
    Option(<< <<NameStatus, JsString(TypeUrl)>>, <<NameStatusLower, JsString(TypeEmail)>> >>,
           JsUndefined),
    Option(<< <<NameWebsite, CustomFn>> >>, JsBoolean(FALSE)),
    Option(<< <<NameStatusUpper, TagLink>> >>, JsBoolean(TRUE)) }

(***************************************************************************)
(* Built-in renderers.  A presentation is the rendered element: its tag,   *)
(* href, visible text, list items and the state-dependent class; loc is    *)
(* the location context a custom renderer may read.                        *)
(***************************************************************************)
Presentation(tag, href, text, items, cls, loc) ==
  [tag |-> tag, href |-> href, text |-> text, items |-> items, cls |-> cls, loc |-> loc]

Yes == <<"Y","e","s">>

No == <<"N","o">>

formatTextValue(value) ==
  IF value.k = "boolean" THEN (IF value.b THEN Yes ELSE No) ELSE String(value)

textRendererFn(value, fieldName, location) ==
  Presentation("span", << >>, formatTextValue(value), << >>, "", "")

\* Mutant of normalizeUrl: the scheme is looked for in lower case only
normalizeUrl_caseSensitive(url) ==
  LET trimmed == trim(url)
  IN  IF \/ startsWith(trimmed, <<"h","t","t","p",":","/","/">>)
         \/ startsWith(trimmed, <<"h","t","t","p","s",":","/","/">>)
      THEN trimmed
      ELSE <<"h","t","t","p","s",":","/","/">> \o trimmed

normalizeUrl(url) ==
  LET trimmed == trim(url)
  IN  IF HasProtocol(trimmed) THEN trimmed
      ELSE <<"h","t","t","p","s",":","/","/">> \o trimmed

urlRendererFn(value, fieldName, location) ==
  Presentation("a", normalizeUrl(String(value)), fieldName, << >>, "", "")

emailRendererFn(value, fieldName, location) ==
  LET email == trim(String(value))
  IN  Presentation("a", <<"m","a","i","l","t","o",":">> \o email, email, << >>, "", "")

\* Mutant of formatPhoneForTel: every '+' is kept, not only a leading one
formatPhoneForTel_keepsPlus(phone) ==
  SelectSeq(phone, LAMBDA c : IsDigit(c) \/ c = "+")

formatPhoneForTel(phone) ==
  LET hasPlus == startsWith(phone, <<"+">>)
      digits == SelectSeq(phone, IsDigit)
  IN  IF hasPlus THEN <<"+">> \o digits ELSE digits

phoneRendererFn(value, fieldName, location) ==
  LET phone == trim(String(value))
  IN  Presentation("a", <<"t","e","l",":">> \o formatPhoneForTel(phone), phone, << >>, "", "")

getArrayItems(value) ==
  IF value.k = "array"
  THEN SelectSeq(trimAll([i \in 1..Len(value.a) |-> String(value.a[i])]),
                 LAMBDA item : item # << >>)
  ELSE LET strValue == trim(String(value))
       IN  IF strValue = << >> THEN << >> ELSE parseArrayString(strValue)

\* Mutant of arrayRendererFn: a single item is rendered as a list too
arrayRendererFn_alwaysList(value, fieldName, location) ==
  LET items == getArrayItems(value)
  IN  IF Len(items) = 0 THEN Presentation("span", << >>, <<"-">>, << >>, "", "")
      ELSE Presentation("ul", << >>, << >>, items, "", "")

arrayRendererFn(value, fieldName, location) ==
  LET items == getArrayItems(value)
  IN  IF Len(items) = 0 THEN Presentation("span", << >>, <<"-">>, << >>, "", "")
      ELSE IF Len(items) = 1 THEN Presentation("span", << >>, items[1], << >>, "", "")
      ELSE Presentation("ul", << >>, << >>, items, "", "")

getBooleanValue(value) ==
  IF value.k = "boolean" THEN value.b
  ELSE IF value.k = "number" THEN value.n # 0
  ELSE parseBooleanString(value.s)

booleanRendererFn(value, fieldName, location) ==
  LET boolValue == getBooleanValue(value)
  IN  Presentation("span", << >>, IF boolValue THEN Yes ELSE No, << >>,
                   IF boolValue THEN "green" ELSE "gray", "")

\* The renderer functions, by identity
TextFn == JsFunction("textRendererFn")

UrlFn == JsFunction("urlRendererFn")

EmailFn == JsFunction("emailRendererFn")

PhoneFn == JsFunction("phoneRendererFn")

ArrayFn == JsFunction("arrayRendererFn")

BooleanFn == JsFunction("booleanRendererFn")

BuiltinFns == {TextFn, UrlFn, EmailFn, PhoneFn, ArrayFn, BooleanFn}

\* A caller-supplied renderer: a pure function of its three arguments.
customRendererFn(id, value, fieldName, location) ==
  Presentation(id, fieldName, String(value), << >>, "", location)

Threw == [threw |-> TRUE, out |-> Presentation("TypeError", << >>, << >>, << >>, "", "")]

Returned(out) == [threw |-> FALSE, out |-> out]

\* renderer(value, fieldName, location): a call of whatever getRenderer
\* returned.  Calling a non-function throws a TypeError; the members
\* inherited from Object.prototype are called with `this` undefined.
callRenderer(renderer, value, fieldName, location) ==
  IF renderer.k # "function" THEN Threw
  ELSE CASE renderer = TextFn    -> Returned(textRendererFn(value, fieldName, location))
         [] renderer = UrlFn     -> Returned(urlRendererFn(value, fieldName, location))
         [] renderer = EmailFn   -> Returned(emailRendererFn(value, fieldName, location))
         [] renderer = PhoneFn   -> Returned(phoneRendererFn(value, fieldName, location))
         [] renderer = ArrayFn   -> Returned(arrayRendererFn(value, fieldName, location))
         [] renderer = BooleanFn -> Returned(booleanRendererFn(value, fieldName, location))
         [] renderer.id = "Object" ->
              Returned(Presentation("Object", << >>, String(value), << >>, "", ""))
         [] renderer.id = "Object.prototype.toString" ->
              Returned(Presentation("[object Undefined]", << >>, << >>, << >>, "", ""))
         [] renderer.id = "Object.prototype.isPrototypeOf" ->
              Returned(Presentation("false", << >>, << >>, << >>, "", ""))
         [] renderer.id \in {ObjectPrototypeFunctions[key] : key \in DOMAIN ObjectPrototypeFunctions} ->
              Threw
         [] OTHER -> Returned(customRendererFn(renderer.id, value, fieldName, location))

(***************************************************************************)
(* FieldRendererRegistry                                                   *)
(***************************************************************************)
builtinMapOwn ==
  ( TypeText :> TextFn ) @@ ( TypeUrl :> UrlFn ) @@ ( TypeEmail :> EmailFn ) @@
  ( TypePhone :> PhoneFn ) @@ ( TypeArray :> ArrayFn ) @@ ( TypeBoolean :> BooleanFn )

\* this.builtinMap[key]: key is converted to a property name; a key that is
\* not a string (a function or an object) names no property.
builtinMap(key) ==
  IF key.k # "string" THEN JsUndefined
  ELSE IF key.s \in DOMAIN builtinMapOwn THEN builtinMapOwn[key.s]
  ELSE ObjectPrototypeMember(key.s)

resolveRenderer(config) ==
  IF config.k = "function" THEN config
  ELSE LET builtin == builtinMap(config)
       IN  IF ~Truthy(builtin) THEN builtinMap(JsString(TypeText)) ELSE builtin

\* Map.prototype.get
mapGet(map, key) == IF key \in DOMAIN map THEN map[key] ELSE JsUndefined

\* Mutant of getRenderer: the standard field mapping is consulted before
\* the explicit configuration
getRenderer_standardFirst(map, autoDetect, fieldName, value) ==
  LET normalizedName == lowerCaseOf[fieldName]
      explicit == mapGet(map, normalizedName)
      standardType == standardRendererOf[fieldName]
      detected == detectionOf[value]
  IN  IF Truthy(standardType) THEN builtinMap(standardType)
      ELSE IF Truthy(explicit) THEN resolveRenderer(explicit)
      ELSE IF autoDetect /\ detected.found THEN builtinMap(JsString(detected.type))
      ELSE builtinMap(JsString(TypeText))

getRenderer(map, autoDetect, fieldName, value) ==
  LET normalizedName == lowerCaseOf[fieldName]
      explicit == mapGet(map, normalizedName)
      standardType == standardRendererOf[fieldName]
      detected == detectionOf[value]
  IN  IF Truthy(explicit) THEN resolveRenderer(explicit)
      ELSE IF Truthy(standardType) THEN builtinMap(standardType)
      ELSE IF autoDetect /\ detected.found THEN builtinMap(JsString(detected.type))
      ELSE builtinMap(JsString(TypeText))

\* Mutant of getRendererType: auto-detection is tried before the standard
\* field mapping
getRendererType_detectFirst(map, autoDetect, fieldName, value) ==
  LET normalizedName == lowerCaseOf[fieldName]
      explicit == mapGet(map, normalizedName)
      standardType == standardRendererOf[fieldName]
      detected == detectionOf[value]
  IN  IF Truthy(explicit)
      THEN (IF explicit.k = "string" THEN explicit ELSE JsString(TypeText))
      ELSE IF autoDetect /\ detected.found THEN JsString(detected.type)
      ELSE IF Truthy(standardType) THEN standardType
      ELSE JsString(TypeText)

getRendererType(map, autoDetect, fieldName, value) ==
  LET normalizedName == lowerCaseOf[fieldName]
      explicit == mapGet(map, normalizedName)
      standardType == standardRendererOf[fieldName]
      detected == detectionOf[value]
  IN  IF Truthy(explicit)
      THEN (IF explicit.k = "string" THEN explicit ELSE JsString(TypeText))
      ELSE IF Truthy(standardType) THEN standardType
      ELSE IF autoDetect /\ detected.found THEN JsString(detected.type)
      ELSE JsString(TypeText)

\* Mutant of render: the renderer of the previous getRenderer call is reused
\* when the field name is the same
render_cached(map, autoDetect, fieldName, value, location) ==
  LET renderer == IF lastCall.op = "getRenderer" /\ lastCall.fieldName = fieldName
                  THEN lastCall.ret
                  ELSE getRenderer(map, autoDetect, fieldName, value)
  IN  callRenderer(renderer, value, fieldName, location)

render(map, autoDetect, fieldName, value, location) ==
  LET renderer == getRenderer(map, autoDetect, fieldName, value)
  IN  callRenderer(renderer, value, fieldName, location)

\* Map.prototype.set
mapSet(map, key, value) ==
  [x \in (DOMAIN map) \cup {key} |-> IF x = key THEN value ELSE map[x]]

\* Map.prototype.delete
mapDelete(map, key) == [x \in (DOMAIN map) \ {key} |-> map[x]]

emptyMap == [x \in {} |-> JsUndefined]

\* new Map(Object.entries(renderers).map(([key, value]) => [key.toLowerCase(), value]))
\* entries is the sequence Object.entries returns; a later entry with the
\* same lowercased key replaces an earlier one.
\* Mutant of mapFromEntries: the constructor keeps the keys as written
RECURSIVE mapFromEntries_rawKeys(_)
mapFromEntries_rawKeys(entries) ==
  IF entries = << >> THEN emptyMap
  ELSE LET last == entries[Len(entries)]
       IN  mapSet(mapFromEntries_rawKeys(SubSeq(entries, 1, Len(entries) - 1)),
                  last[1], last[2])

RECURSIVE mapFromEntries(_)
mapFromEntries(entries) ==
  IF entries = << >> THEN emptyMap
  ELSE LET last == entries[Len(entries)]
       IN  mapSet(mapFromEntries(SubSeq(entries, 1, Len(entries) - 1)),
                  toLowerCase(last[1]), last[2])

\* options.autoDetect ?? true
autoDetectOption(options) ==
  IF options.autoDetect.k \in {"undefined", "null"} THEN TRUE ELSE options.autoDetect.b

hasExplicitRenderer(map, fieldName) == lowerCaseOf[fieldName] \in DOMAIN map

(***************************************************************************)
(* State.  explicitRenderers[i] and autoDetectEnabled[i] are the two       *)
(* private fields of registry instance i; lastCall is the most recent      *)
(* call made on any instance, with its arguments and what it returned.     *)
(***************************************************************************)
Instances == DOMAIN explicitRenderers

\* What the proxy handler reads of a request; "" is a header or a query
\* parameter that is not there
NoRequest == [method |-> "", forwardedFor |-> "", realIp |-> "", sheetId |-> ""]

NoResult == Returned(Presentation("", << >>, << >>, << >>, "", ""))

Call(op, inst) ==
  [op |-> op, inst |-> inst, fieldName |-> << >>, value |-> JsUndefined,
   config |-> JsUndefined, location |-> "", flag |-> FALSE, ret |-> JsUndefined,
   result |-> NoResult, fields |-> {}, pending |-> FALSE, detection |-> NoDetection,
   items |-> << >>, params |-> emptyMap, object |-> emptyMap, request |-> NoRequest]

TypeOK ==
  /\ \A i \in Instances : \A key \in DOMAIN explicitRenderers[i] :
       explicitRenderers[i][key].k \in {"string", "function"}
  /\ DOMAIN autoDetectEnabled = Instances
  /\ \A i \in Instances : autoDetectEnabled[i] \in BOOLEAN
  /\ lastCall.inst \in Instances

\* constructor(options), for every instance of the given set
NoUserLocation == [defined |-> FALSE, latitude |-> 0, longitude |-> 0]

\* The state object createWidgetStore starts with: the data, the filters
\* and the page.  Distances are in tenths of a mile.
createWidgetStore ==
  [ locations |-> << >>,
    filteredLocations |-> << >>,
    filters |-> [ searchQuery |-> << >>,
                  selectedCategories |-> << >>,
                  distanceFilter |-> [ enabled |-> FALSE, maxDistance |-> 250,
                                       userLocation |-> NoUserLocation ] ],
    currentPage |-> 1 ]

\* The proxy module has just been loaded and a widget store created
InitServices ==
  /\ rateLimiter = emptyMap
  /\ clock = 0
  /\ admitted = emptyMap
  /\ store = createWidgetStore

Construct(instances, optionsOf) ==
  /\ explicitRenderers = [i \in instances |-> mapFromEntries(optionsOf[i].renderers)]
  /\ autoDetectEnabled = [i \in instances |-> autoDetectOption(optionsOf[i])]

\* One registry
Init ==
  /\ InitServices
  /\ \E options \in Options : Construct({"r1"}, [i \in {"r1"} |-> options])
  /\ lastCall = Call("constructor", "r1")

\* createFieldRendererRegistry(options): slot i holds a new instance
createFieldRendererRegistry(i, options) ==
  /\ explicitRenderers' = [explicitRenderers EXCEPT ![i] = mapFromEntries(options.renderers)]
  /\ autoDetectEnabled' = [autoDetectEnabled EXCEPT ![i] = autoDetectOption(options)]
  /\ UNCHANGED serviceVars
  /\ lastCall' = Call("constructor", i)

\* Mutant of registerRenderer: the explicit map is shared by all instances
registerRenderer_shared(i, fieldName, renderer) ==
  /\ explicitRenderers' =
       [j \in Instances |-> mapSet(explicitRenderers[j], lowerCaseOf[fieldName], renderer)]
  /\ UNCHANGED serviceVars
  /\ lastCall' = [Call("registerRenderer", i) EXCEPT !.fieldName = fieldName,
                                                      !.config = renderer]
  /\ UNCHANGED autoDetectEnabled

registerRenderer(i, fieldName, renderer) ==
  /\ explicitRenderers' =
       [explicitRenderers EXCEPT ![i] = mapSet(@, lowerCaseOf[fieldName], renderer)]
  /\ UNCHANGED serviceVars
  /\ lastCall' = [Call("registerRenderer", i) EXCEPT !.fieldName = fieldName,
                                                      !.config = renderer]
  /\ UNCHANGED autoDetectEnabled

\* Mutant of unregisterRenderer: the whole explicit map is cleared
unregisterRenderer_clears(i, fieldName) ==
  /\ explicitRenderers' = [explicitRenderers EXCEPT ![i] = emptyMap]
  /\ UNCHANGED serviceVars
  /\ lastCall' = [Call("unregisterRenderer", i) EXCEPT
                    !.fieldName = fieldName,
                    !.flag = lowerCaseOf[fieldName] \in DOMAIN explicitRenderers[i]]
  /\ UNCHANGED autoDetectEnabled

unregisterRenderer(i, fieldName) ==
  /\ explicitRenderers' =
       [explicitRenderers EXCEPT ![i] = mapDelete(@, lowerCaseOf[fieldName])]
  \* flag is what Map.prototype.delete returns: whether an entry was removed
  /\ UNCHANGED serviceVars
  /\ lastCall' = [Call("unregisterRenderer", i) EXCEPT
                    !.fieldName = fieldName,
                    !.flag = lowerCaseOf[fieldName] \in DOMAIN explicitRenderers[i]]
  /\ UNCHANGED autoDetectEnabled

setAutoDetect(i, enabled) ==
  /\ autoDetectEnabled' = [autoDetectEnabled EXCEPT ![i] = enabled]
  /\ UNCHANGED serviceVars
  /\ lastCall' = [Call("setAutoDetect", i) EXCEPT !.flag = enabled]
  /\ UNCHANGED explicitRenderers

CallGetRenderer(i, fieldName, value) ==
  /\ UNCHANGED serviceVars
  /\ lastCall' = [Call("getRenderer", i) EXCEPT
                    !.fieldName = fieldName, !.value = value,
                    !.ret = getRenderer(explicitRenderers[i], autoDetectEnabled[i],
                                        fieldName, value)]
  /\ UNCHANGED <<explicitRenderers, autoDetectEnabled>>

CallGetRendererType(i, fieldName, value) ==
  /\ UNCHANGED serviceVars
  /\ lastCall' = [Call("getRendererType", i) EXCEPT
                    !.fieldName = fieldName, !.value = value,
                    !.ret = getRendererType(explicitRenderers[i], autoDetectEnabled[i],
                                            fieldName, value)]
  /\ UNCHANGED <<explicitRenderers, autoDetectEnabled>>

CallRender(i, fieldName, value, location) ==
  /\ UNCHANGED serviceVars
  /\ lastCall' = [Call("render", i) EXCEPT
                    !.fieldName = fieldName, !.value = value, !.location = location,
                    !.ret = getRenderer(explicitRenderers[i], autoDetectEnabled[i],
                                        fieldName, value),
                    !.result = render(explicitRenderers[i], autoDetectEnabled[i],
                                      fieldName, value, location)]
  /\ UNCHANGED <<explicitRenderers, autoDetectEnabled>>

CallHasExplicitRenderer(i, fieldName) ==
  /\ UNCHANGED serviceVars
  /\ lastCall' = [Call("hasExplicitRenderer", i) EXCEPT
                    !.fieldName = fieldName,
                    !.flag = hasExplicitRenderer(explicitRenderers[i], fieldName)]
  /\ UNCHANGED <<explicitRenderers, autoDetectEnabled>>

CallGetRegisteredFields(i) ==
  /\ UNCHANGED serviceVars
  /\ lastCall' = [Call("getRegisteredFields", i) EXCEPT
                    !.fields = DOMAIN explicitRenderers[i]]
  /\ UNCHANGED <<explicitRenderers, autoDetectEnabled>>

CallIsAutoDetectEnabled(i) ==
  /\ UNCHANGED serviceVars
  /\ lastCall' = [Call("isAutoDetectEnabled", i) EXCEPT !.flag = autoDetectEnabled[i]]
  /\ UNCHANGED <<explicitRenderers, autoDetectEnabled>>

Next ==
  \/ \E i \in Instances, options \in Options : createFieldRendererRegistry(i, options)
  \/ \E i \in Instances, f \in RegisteredNames, c \in Configs : registerRenderer(i, f, c)
  \/ \E i \in Instances, f \in RegisteredNames : unregisterRenderer(i, f)
  \/ \E i \in Instances, enabled \in BOOLEAN : setAutoDetect(i, enabled)
  \/ \E i \in Instances, f \in CallNames, v \in CallValues : CallGetRenderer(i, f, v)
  \/ \E i \in Instances, f \in CallNames, v \in CallValues : CallGetRendererType(i, f, v)
  \/ \E i \in Instances, f \in CallNames, v \in CallValues, loc \in Locations :
       CallRender(i, f, v, loc)
  \/ \E i \in Instances, f \in CallNames : CallHasExplicitRenderer(i, f)
  \/ \E i \in Instances : CallGetRegisteredFields(i)
  \/ \E i \in Instances : CallIsAutoDetectEnabled(i)

Spec == Init /\ [][Next]_vars

(***************************************************************************)
(* Two registries, both constructed from the same options object           *)
(***************************************************************************)
PairNames == { NameStatus, NameStatusLower, NameNotes }

PairRegisteredNames == { NameStatus, NameStatusLower }

PairValues == { ValueHello, ValueHttps }

PairConfigs == { JsString(TypeUrl), CustomFn }

PairOptions ==
  { Option(<< >>, JsUndefined),
    Option(<< <<NameStatus, JsString(TypeUrl)>> >>, JsBoolean(FALSE)) }

InitPair ==
  /\ InitServices
  /\ \E options \in PairOptions : Construct({"r1", "r2"}, [i \in {"r1", "r2"} |-> options])
  /\ lastCall = Call("constructor", "r2")

NextPair ==
  \/ \E i \in Instances, options \in PairOptions : createFieldRendererRegistry(i, options)
  \/ \E i \in Instances, f \in PairRegisteredNames, c \in PairConfigs :
       registerRenderer(i, f, c)
  \/ \E i \in Instances, f \in PairRegisteredNames : unregisterRenderer(i, f)
  \/ \E i \in Instances, enabled \in BOOLEAN : setAutoDetect(i, enabled)
  \/ \E i \in Instances, f \in PairNames, v \in PairValues : CallGetRenderer(i, f, v)
  \/ \E i \in Instances, f \in PairNames, v \in PairValues : CallGetRendererType(i, f, v)
  \/ \E i \in Instances, f \in PairNames, v \in PairValues, loc \in Locations :
       CallRender(i, f, v, loc)
  \/ \E i \in Instances, f \in PairNames : CallHasExplicitRenderer(i, f)
  \/ \E i \in Instances : CallGetRegisteredFields(i)
  \/ \E i \in Instances : CallIsAutoDetectEnabled(i)

SpecPair == InitPair /\ [][NextPair]_vars

(***************************************************************************)
(* The detector applied to bounded inputs.  The initial state holds the    *)
(* argument of a pending call; the action makes the call and records what  *)
(* it returned.                                                            *)
(***************************************************************************)
\* Longest generated string over EmailAlphabet
MaxEmailLen == 5

\* Longest generated string over GroupAlphabet
MaxGroupLen == 5

EmailAlphabet == {"a", ".", "@", " "}

GroupAlphabet == {"1", ",", " ", "a"}

\* Every string over the alphabet of length at most n
StringsUpTo(alphabet, n) ==
  UNION { {SubSeq(f, 1, k) : f \in [1..k -> alphabet]} : k \in 0..n }

DetectStrings ==
  {
    <<"t","r","u","e">>,
    <<"T","R","U","E">>,
    <<" ","T","r","u","e"," ">>,
    <<"T","r","u","e">>,
    <<"f","a","l","s","e">>,
    <<"y","e","s">>,
    <<"n","o">>,
    <<"1">>,
    <<"0">>,
    <<"h","e","l","l","o">>,
    << >>,
    <<" ">>,
    <<"h","t","t","p","s",":","/","/","a",".","i","o">>,
    <<"H","T","T","P",":","/","/","A",".","I","O">>,
    <<"h","t","t","p","s",":","/","/","a",".","i","o",","," ","h","t","t","p","s",":","/","/","b",".","i","o">>,
    <<"w","w","w",".","a",","," ","b">>,
    <<"a",".","i","o",","," ","b">>,
    <<"a",".","i","o">>,
    <<"u","s","e","r","@","e","x","a","m","p","l","e",".","c","o","m">>,
    <<"f","i","r","s","t",".","l","a","s","t","@","e","x","a","m","p","l","e",".","c","o","m">>,
    <<"a",".","i","o","@","b",".","c","o">>,
    <<"w","w","w",".","x","@","y",".","z","z">>,
    <<"a","@","b",","," ","c","@","d",".","e","e">>,
    <<"1","2","3",",","4","5","6">>,
    <<"1","2","3","4",","," ","5","6","7","8">>,
    <<"1","2","3","4","5","6","7",",","8","9","0","1","2","3","4">>,
    <<"1","2"," ",","," ","3","4"," ",",","5","6">>,
    <<"R","e","d",","," ","B","l","u","e",","," ","G","r","e","e","n">>,
    <<"a",","," ","1">>,
    <<"(","5","5","5",")"," ","1","2","3","-","4","5","6","7">>,
    <<"5","5","5","1","2","3","4">>,
    <<"+","1"," ","5","5","5"," ","1","2","3"," ","4","5","6","7">>,
    <<"1","2","3","4","5","6","7">>,
    <<"[","'","a","'",","," ","'","b","'","]">>,
    <<"[","\"","a","\"","]">>,
    <<"D","r",".","S","m","i","t","h"," ","l","i","v","e","s"," ","h","e","r","e">>,
    <<"S","t",".","L","o","u","i","s",","," ","M","O">>,
    <<"A","u","s","t","i","n",","," ","T","X">>,
    <<"e","x","a","m","p","l","e",".","c","o","m">>,
    <<"e","x","a","m","p","l","e",".","c","o","m","/","p","a","t","h">>
  }

\* Longest decimal string of an integer given to the detector
MaxDigits == 17

\* The decimal strings 1, 12, 123, ... of integers with 1..MaxDigits digits,
\* and their negatives
DigitRuns ==
  LET run(k) == [i \in 1..k |-> DigitChars[(i % 10) + 1]]
  IN  {run(k) : k \in 1..MaxDigits} \cup {<<"-">> \o run(k) : k \in 1..MaxDigits}
        \cup {<<"0">>}

DetectValues ==
  { JsBoolean(TRUE), JsBoolean(FALSE) }
  \cup NumberValues
  \cup {JsString(t) : t \in DigitRuns}
  \cup {JsString(t) : t \in DetectStrings}
  \cup {JsString(t) : t \in StringsUpTo(EmailAlphabet, MaxEmailLen)}
  \cup {JsString(t) : t \in StringsUpTo(GroupAlphabet, MaxGroupLen)}

\* A call that has its argument and has not run yet
Pending(op, value) == [Call(op, "r1") EXCEPT !.value = value, !.pending = TRUE]

DefaultRegistry == Construct({"r1"}, [i \in {"r1"} |-> Option(<< >>, JsUndefined)])

InitDetect ==
  /\ InitServices
  /\ DefaultRegistry
  /\ \/ \E v \in DetectValues : lastCall = Pending("detectFieldType", v)
     \/ \E v \in NumberValues :
          lastCall = [Pending("render", v) EXCEPT !.fieldName = NameNotes]

CallDetectFieldType ==
  /\ lastCall.pending
  /\ lastCall.op = "detectFieldType"
  /\ UNCHANGED serviceVars
  /\ lastCall' = [lastCall EXCEPT !.pending = FALSE,
                                   !.detection = detectFieldType(lastCall.value)]
  /\ UNCHANGED <<explicitRenderers, autoDetectEnabled>>

\* registry.render(fieldName, value, location) on the default registry
RenderOnDefaultRegistry ==
  /\ lastCall.pending
  /\ lastCall.op = "render"
  /\ UNCHANGED serviceVars
  /\ lastCall' = [lastCall EXCEPT
                    !.pending = FALSE,
                    !.ret = getRenderer(explicitRenderers["r1"], autoDetectEnabled["r1"],
                                        lastCall.fieldName, lastCall.value),
                    !.result = render(explicitRenderers["r1"], autoDetectEnabled["r1"],
                                      lastCall.fieldName, lastCall.value,
                                      lastCall.location)]
  /\ UNCHANGED <<explicitRenderers, autoDetectEnabled>>

NextDetect ==
  \/ CallDetectFieldType
  \/ RenderOnDefaultRegistry

SpecDetect == InitDetect /\ [][NextDetect]_vars

(***************************************************************************)
(* The parsing and formatting utilities applied to bounded inputs          *)
(***************************************************************************)
\* Most tokens concatenated into a generated parseArrayString input
MaxTokens == 3

\* Most spaces put before and after a generated parseBooleanString input
MaxPad == 2

\* Longest generated phone value
MaxPhoneLen == 4

ArrayTokens ==
  { <<",">>, <<","," ">>, <<"a">>, <<"'","b","'">>, <<"\"","c","\"">>, <<"1">>, <<" ">> }

RECURSIVE TokenStrings(_)
TokenStrings(n) ==
  IF n = 0 THEN { << >> }
  ELSE LET shorter == TokenStrings(n - 1)
       IN  shorter \cup {s \o t : s \in shorter, t \in ArrayTokens}

ArrayInputs ==
  {
    <<"[","'","a","'",","," ","'","b","'",","," ","'","c","'","]">>,
    <<"a",","," ","b",","," ","c">>,
    <<"[","\"","a","\"",","," ","\"","b","\"",","," ","\"","c","\"","]">>,
    <<"[","a",","," ","b","]">>,
    <<"[","'","a","'",","," ","\"","b","\"","]">>,
    <<"[","1",","," ","2","]">>,
    <<"[","]">>,
    <<"["," ","]">>,
    << >>,
    <<"[","t","r","u","e",","," ","n","u","l","l","]">>,
    <<"[","\"","a","\"",","," ","]">>,
    <<"[","'","a","'"," ","'","b","'","]">>,
    <<" ","[","'","x","'","]"," ">>,
    <<"a",",",",","b",",">>,
    <<"[">>,
    <<"]">>,
    <<"[","\"","\"","]">>,
    <<"[","\""," ","\"","]">>,
    <<"[","\"","a","\"",","," ","\"","\"","]">>,
    <<"[","'","'",","," ","'","b","'","]">>,
    <<" "," ">>,
    <<" ","a"," ">>
  }
  \cup UNION { {s, <<"[">> \o s \o <<"]">>, <<" ","[">> \o s \o <<"]"," ">>} :
               s \in TokenStrings(MaxTokens) }

\* Most elements of a generated native array
MaxItems == 3

ArrayElements ==
  { JsString(<<"a">>), JsString(<<" ","b"," ">>), JsString(<< >>), JsString(<<" ">>),
    JsNumber(7), JsBoolean(TRUE) }

\* Native arrays of up to MaxItems elements
ArrayValues ==
  UNION { {JsArray(e) : e \in [1..k -> ArrayElements]} : k \in 0..MaxItems }

\* Most tokens of a generated URL value
MaxUrlTokens == 3

UrlTokens ==
  { <<"h","t","t","p",":","/","/">>,
    <<"h","t","t","p","s",":","/","/">>,
    <<"H","T","T","P",":","/","/">>,
    <<"H","t","t","p","s",":","/","/">>,
    <<" ">>,
    <<"a",".","i","o">>,
    <<"j","a","v","a","s","c","r","i","p","t",":">>,
    <<"h","t","t","p",":","/">>,
    <<"f","t","p",":","/","/">>,
    <<"/">> }

RECURSIVE UrlStrings(_)
UrlStrings(n) ==
  IF n = 0 THEN { << >> }
  ELSE LET shorter == UrlStrings(n - 1)
       IN  shorter \cup {s \o t : s \in shorter, t \in UrlTokens}

UrlValues == {JsString(t) : t \in UrlStrings(MaxUrlTokens)} \cup {JsNumber(7)}

toUpperChar(c) ==
  IF IsLower(c) THEN UpperLetters[CHOOSE i \in 1..26 : LowerLetters[i] = c]
  ELSE c

toUpperCase(s) ==
  LET f == [i \in 1..Len(s) |-> toUpperChar(s[i])]
  IN  SubSeq(f, 1, Len(s))

\* The word in lower case, in upper case and capitalized
Cased(w) ==
  { w, toUpperCase(w),
    IF w = << >> THEN w ELSE << toUpperChar(w[1]) >> \o Tail(w) }

Spaces(n) == SubSeq([i \in 1..n |-> " "], 1, n)

BooleanWords ==
  {
    <<"t","r","u","e">>,
    <<"f","a","l","s","e">>,
    <<"y","e","s">>,
    <<"n","o">>,
    <<"1">>,
    <<"0">>,
    <<"o","n">>,
    <<"o","f","f">>,
    <<"y">>,
    <<"n">>,
    << >>,
    <<"t">>,
    <<"t","r","u","t","h">>,
    <<"y","e","s","!">>,
    <<"0","1">>,
    <<"t","r"," ","u","e">>,
    <<"1","0">>,
    <<"n","o","p","e">>
  }

BooleanInputs ==
  { Spaces(l) \o c \o Spaces(r) :
      l \in 0..MaxPad, r \in 0..MaxPad, c \in UNION {Cased(w) : w \in BooleanWords} }

NameWords ==
  {
    <<"w","e","b","s","i","t","e">>,
    <<"u","r","l">>,
    <<"l","i","n","k">>,
    <<"h","o","m","e","p","a","g","e">>,
    <<"e","m","a","i","l">>,
    <<"m","a","i","l">>,
    <<"e","m","a","i","l","a","d","d","r","e","s","s">>,
    <<"p","h","o","n","e">>,
    <<"t","e","l","e","p","h","o","n","e">>,
    <<"t","e","l">>,
    <<"m","o","b","i","l","e">>,
    <<"c","e","l","l">>,
    <<"f","a","x">>,
    <<"c","o","n","t","a","c","t","p","h","o","n","e">>,
    <<"p","h","o","n","e","s">>,
    <<"e","m","a","i","l","s">>,
    <<"w","e","b">>,
    <<"n","o","t","e","s">>,
    <<"c","o","n","s","t","r","u","c","t","o","r">>,
    <<"t","o","s","t","r","i","n","g">>,
    <<"v","a","l","u","e","o","f">>,
    <<"p","r","o","t","o">>,
    <<"n","a","m","e">>,
    << >>
  }

\* The word with one separator put at any position
Separated(w) ==
  { SubSeq(w, 1, k) \o << sep >> \o SubSeq(w, k + 1, Len(w)) :
      k \in 0..Len(w), sep \in {"_", " ", "-"} }

NameInputs ==
  {
    <<"t","o","S","t","r","i","n","g">>,
    <<"v","a","l","u","e","O","f">>,
    <<"h","a","s","O","w","n","P","r","o","p","e","r","t","y">>,
    <<"_","_","p","r","o","t","o","_","_">>,
    <<"E","-","M","a","i","l"," ","A","d","d","r","e","s","s">>,
    <<"c","o","n","t","a","c","t","_","p","h","o","n","e">>,
    <<"W","e","b","_","S","i","t","e">>
  }
  \cup UNION { Cased(w) : w \in NameWords }
  \cup UNION { UNION { Cased(x) : x \in Separated(w) } : w \in NameWords }

PhoneAlphabet == {"+", "1", "2", "-", " ", "a"}

PhoneValues ==
  { JsNumber(5551234) }
  \cup { JsString(t) : t \in {
    <<"(","5","5","5",")"," ","1","2","3","-","4","5","6","7">>,
    <<"+","1"," ","(","5","5","5",")"," ","1","2","3","-","4","5","6","7">>,
    <<" ","+","4","4"," ","2","0"," ","7","9","4","6"," ","0","9","5","8"," ">>,
    <<"5","5","5",".","1","2","3",".","4","5","6","7">>,
    <<"+","1","+","2">>,
    <<"1","+","2">>,
    << >>,
    <<"+","+","1">>,
    <<"e","x","t","."," ","1","2">>
    } }
  \cup { JsString(t) : t \in StringsUpTo(PhoneAlphabet, MaxPhoneLen) }

\* A call on a field name that has its argument and has not run yet
PendingName(op, fieldName) ==
  [Call(op, "r1") EXCEPT !.fieldName = fieldName, !.pending = TRUE]

InitUtil ==
  /\ InitServices
  /\ DefaultRegistry
  /\ \/ \E t \in ArrayInputs : lastCall = Pending("parseArrayString", JsString(t))
     \/ \E t \in BooleanInputs : lastCall = Pending("parseBooleanString", JsString(t))
     \/ \E t \in BooleanInputs : lastCall = Pending("booleanRendererFn", JsString(t))
     \/ \E f \in NameInputs : lastCall = PendingName("getStandardFieldRenderer", f)
     \/ \E v \in PhoneValues : lastCall = Pending("phoneRendererFn", v)
     \/ \E v \in UrlValues :
          lastCall = [Pending("urlRendererFn", v) EXCEPT !.fieldName = NameWebsite]
     \/ \E t \in ArrayInputs : lastCall = Pending("arrayRendererFn", JsString(t))
     \/ \E v \in ArrayValues : lastCall = Pending("arrayRendererFn", v)

CallParseArrayString ==
  /\ lastCall.pending
  /\ lastCall.op = "parseArrayString"
  /\ UNCHANGED serviceVars
  /\ lastCall' = [lastCall EXCEPT !.pending = FALSE,
                                   !.items = parseArrayString(lastCall.value.s)]
  /\ UNCHANGED <<explicitRenderers, autoDetectEnabled>>

CallParseBooleanString ==
  /\ lastCall.pending
  /\ lastCall.op = "parseBooleanString"
  /\ UNCHANGED serviceVars
  /\ lastCall' = [lastCall EXCEPT !.pending = FALSE,
                                   !.flag = parseBooleanString(lastCall.value.s)]
  /\ UNCHANGED <<explicitRenderers, autoDetectEnabled>>

CallBooleanRendererFn ==
  /\ lastCall.pending
  /\ lastCall.op = "booleanRendererFn"
  /\ UNCHANGED serviceVars
  /\ lastCall' = [lastCall EXCEPT
                    !.pending = FALSE,
                    !.result = callRenderer(BooleanFn, lastCall.value, << >>, "locA")]
  /\ UNCHANGED <<explicitRenderers, autoDetectEnabled>>

CallGetStandardFieldRenderer ==
  /\ lastCall.pending
  /\ lastCall.op = "getStandardFieldRenderer"
  /\ UNCHANGED serviceVars
  /\ lastCall' = [lastCall EXCEPT !.pending = FALSE,
                                   !.ret = getStandardFieldRenderer(lastCall.fieldName)]
  /\ UNCHANGED <<explicitRenderers, autoDetectEnabled>>

CallPhoneRendererFn ==
  /\ lastCall.pending
  /\ lastCall.op = "phoneRendererFn"
  /\ UNCHANGED serviceVars
  /\ lastCall' = [lastCall EXCEPT
                    !.pending = FALSE,
                    !.result = callRenderer(PhoneFn, lastCall.value, << >>, "locA")]
  /\ UNCHANGED <<explicitRenderers, autoDetectEnabled>>

CallArrayRendererFn ==
  /\ lastCall.pending
  /\ lastCall.op = "arrayRendererFn"
  /\ UNCHANGED serviceVars
  /\ lastCall' = [lastCall EXCEPT
                    !.pending = FALSE,
                    !.items = getArrayItems(lastCall.value),
                    !.result = callRenderer(ArrayFn, lastCall.value, << >>, "locA")]
  /\ UNCHANGED <<explicitRenderers, autoDetectEnabled>>

CallUrlRendererFn ==
  /\ lastCall.pending
  /\ lastCall.op = "urlRendererFn"
  /\ UNCHANGED serviceVars
  /\ lastCall' = [lastCall EXCEPT
                    !.pending = FALSE,
                    !.result = callRenderer(UrlFn, lastCall.value, lastCall.fieldName,
                                            "locA")]
  /\ UNCHANGED <<explicitRenderers, autoDetectEnabled>>

NextUtil ==
  \/ CallUrlRendererFn
  \/ CallArrayRendererFn
  \/ CallParseArrayString
  \/ CallParseBooleanString
  \/ CallBooleanRendererFn
  \/ CallGetStandardFieldRenderer
  \/ CallPhoneRendererFn

SpecUtil == InitUtil /\ [][NextUtil]_vars

(***************************************************************************)
(* URL configuration (utils/urlConfig.ts).  The query parameters are a     *)
(* function from the names present to their raw values; an object is a     *)
(* function from its own keys to values.                                    *)
(***************************************************************************)
\* URLSearchParams.prototype.get: the raw value, or null for an absent name
paramsGet(params, name) ==
  IF name \in DOMAIN params THEN JsString(params[name]) ELSE JsNull

IsNaN == [nan |-> TRUE, n |-> 0]

digitValue(c) == (CHOOSE i \in 1..10 : DigitChars[i] = c) - 1

RECURSIVE decimalValue(_)
decimalValue(digits) ==
  IF digits = << >> THEN 0
  ELSE 10 * decimalValue(SubSeq(digits, 1, Len(digits) - 1)) + digitValue(digits[Len(digits)])

\* parseInt(raw, 10): leading whitespace, an optional sign and the longest
\* run of digits; NaN when there is no digit
parseInt(raw) ==
  LET from == SetMin({p \in 1..(Len(raw) + 1) : p > Len(raw) \/ ~IsSpace(raw[p])})
      signed == from <= Len(raw) /\ raw[from] \in {"-", "+"}
      first == IF signed THEN from + 1 ELSE from
      stop == SetMin({p \in first..(Len(raw) + 1) : p > Len(raw) \/ ~IsDigit(raw[p])})
      value == decimalValue(SubSeq(raw, first, stop - 1))
  IN  IF stop = first THEN IsNaN
      ELSE [nan |-> FALSE, n |-> IF signed /\ raw[from] = "-" THEN 0 - value ELSE value]

\* parseFloat(raw) on raw values without a fraction or an exponent, where it
\* reads the same prefix as parseInt
parseFloat(raw) == parseInt(raw)

setIf(condition, object, key, value) ==
  IF condition THEN mapSet(object, key, value) ELSE object

parseDataSource(params, type) ==
  LET sheetId == paramsGet(params, "sheetId")
      apiKey == paramsGet(params, "apiKey")
      proxyUrl == paramsGet(params, "proxyUrl")
      url == paramsGet(params, "url")
      orUndefined(v) == IF Truthy(v) THEN v ELSE JsUndefined
      range == orUndefined(paramsGet(params, "range"))
      gid == orUndefined(paramsGet(params, "gid"))
      typed == ("type" :> JsString(type))
  IN  CASE type = <<"g","o","o","g","l","e","-","s","h","e","e","t","s">> /\ Truthy(sheetId) /\ Truthy(apiKey) ->
             typed @@ ("sheetId" :> sheetId) @@ ("apiKey" :> apiKey) @@ ("range" :> range)
        [] type = <<"g","o","o","g","l","e","-","s","h","e","e","t","s","-","p","u","b","l","i","c">> /\ Truthy(sheetId) ->
             typed @@ ("sheetId" :> sheetId) @@ ("gid" :> gid) @@ ("range" :> range)
        [] type = <<"g","o","o","g","l","e","-","s","h","e","e","t","s","-","p","r","o","x","y">> /\ Truthy(proxyUrl) /\ Truthy(sheetId) ->
             typed @@ ("proxyUrl" :> proxyUrl) @@ ("sheetId" :> sheetId) @@ ("range" :> range)
        [] type \in {<<"c","s","v">>, <<"j","s","o","n">>} /\ Truthy(url) ->
             typed @@ ("url" :> url)
        [] type = <<"m","o","c","k">> -> typed
        [] OTHER -> JsUndefined

parseEmbedOptions(params) ==
  LET height == paramsGet(params, "height")
      width == paramsGet(params, "width")
      theme == paramsGet(params, "theme")
      hideSearch == paramsGet(params, "hideSearch")
      hideTable == paramsGet(params, "hideTable")
      hideFilters == paramsGet(params, "hideFilters")
      defaultView == paramsGet(params, "defaultView")
      lat == paramsGet(params, "lat")
      lng == paramsGet(params, "lng")
      zoom == paramsGet(params, "zoom")
      category == paramsGet(params, "category")
      isTrue(v) == JsBoolean(v.s = <<"t","r","u","e">>)
      number(parsed) == JsNumber(parsed.n)
      o1 == setIf(Truthy(height), emptyMap, "height", height)
      o2 == setIf(Truthy(width), o1, "width", width)
      o3 == setIf(Truthy(theme) /\ theme.s \in {<<"l","i","g","h","t">>, <<"d","a","r","k">>, <<"a","u","t","o">>}, o2, "theme", theme)
      o4 == setIf(hideSearch # JsNull, o3, "hideSearch", isTrue(hideSearch))
      o5 == setIf(hideTable # JsNull, o4, "hideTable", isTrue(hideTable))
      o6 == setIf(hideFilters # JsNull, o5, "hideFilters", isTrue(hideFilters))
      o7 == setIf(Truthy(defaultView) /\ defaultView.s \in {<<"m","a","p">>, <<"t","a","b","l","e">>},
                  o6, "defaultView", defaultView)
      o8 == setIf(lat # JsNull /\ ~parseFloat(lat.s).nan, o7, "lat", number(parseFloat(lat.s)))
      o9 == setIf(lng # JsNull /\ ~parseFloat(lng.s).nan, o8, "lng", number(parseFloat(lng.s)))
      o10 == setIf(zoom # JsNull /\ ~parseInt(zoom.s).nan, o9, "zoom", number(parseInt(zoom.s)))
  IN  setIf(Truthy(category), o10, "category", category)

parseURLConfig(params) ==
  LET type == paramsGet(params, "type")
      config == setIf(Truthy(type), emptyMap, "dataSource", parseDataSource(params, type.s))
      embedOptions == parseEmbedOptions(params)
  IN  setIf(DOMAIN embedOptions # {}, config, "embedOptions", embedOptions)

\* A parameter that is absent, or present with one of the raw values
OneParam(name, raws) ==
  {emptyMap} \cup {[x \in {name} |-> raw] : raw \in raws}

ToggleRaws == { <<"t","r","u","e">>, <<"f","a","l","s","e">>, <<"T","R","U","E">>, << >> }

\* The query strings of the model
QueryParams ==
  { type @@ url @@ search @@ table @@ filters @@ geolocation @@ theme @@ zoom @@ lat :
      type \in OneParam("type", {<<"m","o","c","k">>, <<"c","s","v">>}),
      url \in OneParam("url", {<<"h","t","t","p","s",":","/","/","a",".","i","o","/","d",".","c","s","v">>}),
      search \in OneParam("hideSearch", ToggleRaws),
      table \in OneParam("hideTable", ToggleRaws),
      filters \in OneParam("hideFilters", ToggleRaws),
      geolocation \in OneParam("hideGeolocation", ToggleRaws),
      theme \in OneParam("theme", {<<"d","a","r","k">>, <<"b","l","u","e">>}),
      zoom \in OneParam("zoom", {<<"1","2">>}),
      lat \in OneParam("lat", {<<"x">>}) }

InitUrlConfig ==
  /\ InitServices
  /\ DefaultRegistry
  /\ \E params \in QueryParams :
       lastCall = [Call("parseURLConfig", "r1") EXCEPT !.params = params, !.pending = TRUE]

CallParseURLConfig ==
  /\ lastCall.pending
  /\ lastCall.op = "parseURLConfig"
  /\ UNCHANGED serviceVars
  /\ lastCall' = [lastCall EXCEPT !.pending = FALSE,
                                   !.object = parseURLConfig(lastCall.params)]
  /\ UNCHANGED <<explicitRenderers, autoDetectEnabled>>

NextUrlConfig == CallParseURLConfig

SpecUrlConfig == InitUrlConfig /\ [][NextUrlConfig]_vars

(***************************************************************************)
(* Google Sheets proxy (examples/proxy-server/vercel/api/sheets).  Time is *)
(* in milliseconds; the clock is read at multiples of TickMs.              *)
(***************************************************************************)
\* maxRequests of the model, in place of the 100 the handler passes
MaxRequests == 2

\* Milliseconds between two values of Date.now()
TickMs == 30000

\* Number of times the clock advances
MaxTicks == 4

\* windowMs as the handler passes it
WindowMs == 60000

\* requests.filter((time) => now - time < windowMs)
recentOf(times, now, windowMs) == SelectSeq(times, LAMBDA time : now - time < windowMs)

\* Mutant of checkRateLimit: a request exactly windowMs old still counts
checkRateLimit_inclusiveWindow(limiter, now, ip, maxRequests, windowMs, cleanup) ==
  LET requests == IF ip \in DOMAIN limiter THEN limiter[ip] ELSE << >>
      recentRequests == SelectSeq(requests, LAMBDA time : now - time <= windowMs)
      pushed == mapSet(limiter, ip, Append(recentRequests, now))
  IN  IF Len(recentRequests) >= maxRequests THEN [allowed |-> FALSE, limiter |-> limiter]
      ELSE [allowed |-> TRUE, limiter |-> pushed]

\* checkRateLimit(ip, maxRequests, windowMs) on the Map limiter at time now:
\* what it returns and the Map it leaves.  cleanup is Math.random() < 0.01.
checkRateLimit(limiter, now, ip, maxRequests, windowMs, cleanup) ==
  LET requests == IF ip \in DOMAIN limiter THEN limiter[ip] ELSE << >>
      recentRequests == recentOf(requests, now, windowMs)
      pushed == mapSet(limiter, ip, Append(recentRequests, now))
      kept == {key \in DOMAIN pushed : Len(recentOf(pushed[key], now, windowMs)) # 0}
      cleaned == [key \in kept |-> recentOf(pushed[key], now, windowMs)]
  IN  IF Len(recentRequests) >= maxRequests THEN [allowed |-> FALSE, limiter |-> limiter]
      ELSE [allowed |-> TRUE, limiter |-> IF cleanup THEN cleaned ELSE pushed]

\* req.headers['x-forwarded-for'] || req.headers['x-real-ip'] || 'unknown'
clientIpOf(request) ==
  IF request.forwardedFor # "" THEN request.forwardedFor
  ELSE IF request.realIp # "" THEN request.realIp
  ELSE "unknown"

\* The status the handler answers with once the rate limiter has admitted
\* the request.  upstream is the status of the Google Sheets API, 0 for a
\* fetch that throws.
statusAfterLimiter(request, apiKey, upstream) ==
  IF request.sheetId = "" THEN 400
  ELSE IF apiKey = "" THEN 500
  ELSE IF upstream = 0 THEN 500
  ELSE upstream

Requests ==
  { [method |-> method, forwardedFor |-> headers[1], realIp |-> headers[2],
     sheetId |-> sheetId] :
      method \in {"GET", "OPTIONS", "POST"},
      headers \in {<<"10.0.0.1", "10.0.0.2">>, <<"", "10.0.0.1">>, <<"", "">>},
      sheetId \in {"", "sheet1"} }

\* The handler, from the request to the response status
handler(request, cleanup, apiKey, upstream) ==
  LET clientIp == clientIpOf(request)
      limit == checkRateLimit(rateLimiter, clock, clientIp, MaxRequests, WindowMs, cleanup)
      limited == request.method = "GET"
      status == IF request.method = "OPTIONS" THEN 200
                ELSE IF request.method # "GET" THEN 405
                ELSE IF ~limit.allowed THEN 429
                ELSE statusAfterLimiter(request, apiKey, upstream)
  IN  \* what the handler does not read on the path taken is left at one value
      /\ limited => (request.sheetId = "" => apiKey = "" /\ upstream = 0)
      /\ ~limited => (~cleanup /\ apiKey = "" /\ upstream = 0)
      /\ (limited /\ ~limit.allowed) => (~cleanup /\ apiKey = "" /\ upstream = 0)
      /\ rateLimiter' = IF limited THEN limit.limiter ELSE rateLimiter
      /\ admitted' = IF limited /\ limit.allowed
                     THEN mapSet(admitted, clientIp,
                                 Append(IF clientIp \in DOMAIN admitted
                                        THEN admitted[clientIp] ELSE << >>, clock))
                     ELSE admitted
      /\ lastCall' = [Call("handler", "r1") EXCEPT !.request = request,
                                                   !.ret = JsNumber(status)]
      /\ UNCHANGED <<explicitRenderers, autoDetectEnabled, clock, store>>

\* Time passes: Date.now() returns a later value.  The history forgets
\* what no window reaching the new time can hold.
Tick ==
  /\ clock < MaxTicks * TickMs
  /\ clock' = clock + TickMs
  /\ admitted' = [ip \in DOMAIN admitted |->
                    SelectSeq(admitted[ip], LAMBDA time : clock' - time < WindowMs)]
  /\ lastCall' = Call("Date.now", "r1")
  /\ UNCHANGED <<explicitRenderers, autoDetectEnabled, rateLimiter, store>>

InitProxy ==
  /\ InitServices
  /\ DefaultRegistry
  /\ lastCall = Call("load", "r1")

NextProxy ==
  \/ \E request \in Requests, cleanup \in BOOLEAN, apiKey \in {"", "key"},
        upstream \in {0, 200, 404} :
       handler(request, cleanup, apiKey, upstream)
  \/ Tick

SpecProxy == InitProxy /\ [][NextProxy]_vars

(***************************************************************************)
(* Widget store (stores/widgetStore.ts): the locations, the filters, the   *)
(* filtered locations and the page.                                         *)
(***************************************************************************)
\* String.prototype.includes with a string argument
includesText(s, query) ==
  \E from \in 1..(Len(s) - Len(query) + 1) : SubSeq(s, from, from + Len(query) - 1) = query

\* calculateDistance for two points of the same longitude with whole-degree
\* latitudes, in tenths of a mile: the haversine angle is then the latitude
\* difference, R * c is 3959 * pi / 180 = 69.098 miles per degree, and the
\* result is rounded to one decimal.
calculateDistance(coord1, coord2) ==
  LET degrees == IF coord1.latitude >= coord2.latitude
                 THEN coord1.latitude - coord2.latitude
                 ELSE coord2.latitude - coord1.latitude
  IN  (69098 * degrees + 50) \div 100

\* value?.toLowerCase().includes(query) for an optional string
optionalIncludes(value, query) ==
  value.k = "string" /\ includesText(toLowerCase(value.s), query)

\* The callback of the search filter
matchesSearch(loc, query) ==
  LET standardFieldsMatch ==
        \/ includesText(toLowerCase(loc.name), query)
        \/ includesText(toLowerCase(loc.description), query)
        \/ includesText(toLowerCase(loc.category), query)
        \/ optionalIncludes(loc.address.street, query)
        \/ optionalIncludes(loc.address.city, query)
        \/ optionalIncludes(loc.address.state, query)
        \/ optionalIncludes(loc.address.country, query)
      customFieldsMatch ==
        \E p \in 1..Len(loc.customFields) :
          includesText(toLowerCase(String(loc.customFields[p])), query)
  IN  standardFieldsMatch \/ customFieldsMatch

\* Array.prototype.sort by distance; the sort is stable
RECURSIVE sortByDistance(_)
sortByDistance(locs) ==
  IF Len(locs) <= 1 THEN locs
  ELSE LET rest == sortByDistance(SubSeq(locs, 1, Len(locs) - 1))
           last == locs[Len(locs)]
           before == {p \in 1..Len(rest) : rest[p].distance <= last.distance}
           at == IF before = {} THEN 0 ELSE SetMax(before)
       IN  SubSeq(rest, 1, at) \o <<last>> \o SubSeq(rest, at + 1, Len(rest))

\* What applyFilters puts in filteredLocations
applyFilters(state) ==
  LET filters == state.filters
      query == toLowerCase(filters.searchQuery)
      searched == IF filters.searchQuery # << >>
                  THEN SelectSeq(state.locations, LAMBDA loc : matchesSearch(loc, query))
                  ELSE state.locations
      categorized ==
        IF Len(filters.selectedCategories) > 0
        THEN SelectSeq(searched,
                       LAMBDA loc : \E p \in 1..Len(filters.selectedCategories) :
                                      filters.selectedCategories[p] = toLowerCase(loc.category))
        ELSE searched
      userLocation == filters.distanceFilter.userLocation
      measured == [p \in 1..Len(categorized) |->
                     [categorized[p] EXCEPT
                        !.hasDistance = TRUE,
                        !.distance = calculateDistance(categorized[p], userLocation)]]
  IN  IF filters.distanceFilter.enabled /\ userLocation.defined
      THEN sortByDistance(SelectSeq(measured,
                                    LAMBDA loc : loc.distance <= filters.distanceFilter.maxDistance))
      ELSE categorized

\* { ...state.filters, ...newFilters }
mergeFilters(filters, newFilters) ==
  [key \in DOMAIN filters |-> IF key \in DOMAIN newFilters THEN newFilters[key] ELSE filters[key]]

Place(id, name, description, category, city, customFields, latitude) ==
  [ id |-> id, name |-> name, description |-> description, category |-> category,
    address |-> [street |-> JsUndefined, city |-> city, state |-> JsUndefined,
                 country |-> JsUndefined],
    customFields |-> customFields, latitude |-> latitude, longitude |-> 0,
    hasDistance |-> FALSE, distance |-> 0 ]

PlaceCafe == Place("1", <<"C","a","f","e"," ","U","n","o">>, <<"c","o","f","f","e","e">>, <<"C","a","f","e">>, JsString(<<"A","u","s","t","i","n">>), << JsString(<<"w","i","f","i">>) >>, 30)

PlacePark == Place("2", <<"G","r","e","e","n">>, <<"l","a","w","n">>, <<"p","a","r","k">>, JsUndefined, << JsNumber(7) >>, 31)

PlaceBar == Place("3", <<"B","a","r">>, <<"d","r","i","n","k","s">>, <<"C","A","F","E">>, JsString(<<"W","a","c","o">>), << >>, 32)

PlaceZoo == Place("4", <<"Z","o","o">>, <<"a","n","i","m","a","l","s">>, <<"p","a","r","k">>, JsUndefined, << JsBoolean(TRUE) >>, 31)

LocationLists ==
  { << >>, <<PlaceCafe>>, <<PlaceCafe, PlacePark, PlaceBar>>, <<PlaceBar, PlacePark, PlaceCafe>>,
    <<PlaceZoo, PlaceBar, PlacePark>> }

SearchQueries == { << >>, <<"a">>, <<"C","A","F">> }

CategorySelections == { << >>, << <<"c","a","f","e">> >>, << <<"C","a","f","e">>, <<"p","a","r","k">> >> }

UserAtCafe == [defined |-> TRUE, latitude |-> 30, longitude |-> 0]

DistanceFilters ==
  { [enabled |-> FALSE, maxDistance |-> 250, userLocation |-> NoUserLocation],
    [enabled |-> TRUE, maxDistance |-> 250, userLocation |-> NoUserLocation],
    [enabled |-> FALSE, maxDistance |-> 700, userLocation |-> UserAtCafe],
    [enabled |-> TRUE, maxDistance |-> 700, userLocation |-> UserAtCafe],
    [enabled |-> TRUE, maxDistance |-> 2000, userLocation |-> UserAtCafe] }

\* Partial<FilterState>: any of the three keys, each with a value
PartialFilters ==
  { query @@ categories @@ distance :
      query \in {emptyMap} \cup {[x \in {"searchQuery"} |-> q] : q \in SearchQueries},
      categories \in {emptyMap}
                      \cup {[x \in {"selectedCategories"} |-> c] : c \in CategorySelections},
      distance \in {emptyMap} \cup {[x \in {"distanceFilter"} |-> d] : d \in DistanceFilters} }

\* Highest page number given to setCurrentPage
MaxPage == 2

\* Mutant of setLocations: the filters are not applied again
setLocations_keepsFiltered(locations) ==
  /\ store' = [store EXCEPT !.locations = locations]
  /\ lastCall' = Call("setLocations", "r1")
  /\ UNCHANGED <<explicitRenderers, autoDetectEnabled, rateLimiter, clock, admitted>>

setLocations(locations) ==
  /\ store' = LET stored == [store EXCEPT !.locations = locations]
              IN  [stored EXCEPT !.filteredLocations = applyFilters(stored)]
  /\ lastCall' = Call("setLocations", "r1")
  /\ UNCHANGED <<explicitRenderers, autoDetectEnabled, rateLimiter, clock, admitted>>

setFilters(newFilters) ==
  /\ store' = LET stored == [store EXCEPT !.filters = mergeFilters(store.filters, newFilters),
                                          !.currentPage = 1]
              IN  [stored EXCEPT !.filteredLocations = applyFilters(stored)]
  /\ lastCall' = Call("setFilters", "r1")
  /\ UNCHANGED <<explicitRenderers, autoDetectEnabled, rateLimiter, clock, admitted>>

setCurrentPage(page) ==
  /\ store' = [store EXCEPT !.currentPage = page]
  /\ lastCall' = Call("setCurrentPage", "r1")
  /\ UNCHANGED <<explicitRenderers, autoDetectEnabled, rateLimiter, clock, admitted>>

CallApplyFilters ==
  /\ store' = [store EXCEPT !.filteredLocations = applyFilters(store)]
  /\ lastCall' = Call("applyFilters", "r1")
  /\ UNCHANGED <<explicitRenderers, autoDetectEnabled, rateLimiter, clock, admitted>>

InitStore ==
  /\ InitServices
  /\ DefaultRegistry
  /\ lastCall = Call("createWidgetStore", "r1")

NextStore ==
  \/ \E locations \in LocationLists : setLocations(locations)
  \/ \E newFilters \in PartialFilters : setFilters(newFilters)
  \/ \E page \in 1..MaxPage : setCurrentPage(page)
  \/ CallApplyFilters

SpecStore == InitStore /\ [][NextStore]_vars

(***************************************************************************)
(* Properties                                                              *)
(***************************************************************************)
\* The name is one of the thirteen names of the standard contact-field table
inStandardTable == [f \in FieldNames |-> normalizeStandardName(f) \in DOMAIN standardMappings]

IsBuiltInTag(config) == config.k = "string" /\ config.s \in BuiltInRendererType

\* A well-formed FieldRendererConfigValue
IsRendererConfig(config) == IsBuiltInTag(config) \/ config.k = "function"

\* The renderer a well-formed configuration value stands for
RendererOfConfig(config) ==
  IF config.k = "function" THEN config ELSE builtinMapOwn[config.s]

\* C1: Explicit override always wins.  In every registry state, for every
\* field name with an explicit entry (matched case-insensitively) and every
\* value, getRendererType returns the entry's tag when the entry is a
\* built-in type name and 'text' when it is a custom function, and
\* getRenderer returns the entry's renderer, whatever the standard mapping,
\* the detector or the auto-detect flag say.
ExplicitOverrideAlwaysWins ==
  \A i \in Instances, f \in FieldNames, v \in Values :
    LET map == explicitRenderers[i]
        auto == autoDetectEnabled[i]
        key == lowerCaseOf[f]
    IN  (key \in DOMAIN map) =>
          /\ IsBuiltInTag(map[key]) =>
               /\ getRendererType(map, auto, f, v) = map[key]
               /\ getRenderer(map, auto, f, v) = builtinMapOwn[map[key].s]
          /\ (map[key].k = "function") =>
               /\ getRendererType(map, auto, f, v) = JsString(TypeText)
               /\ getRenderer(map, auto, f, v) = map[key]

\* getRendererType('Status', 'hello') returned url from an explicit
\* {status: 'url'} entry
ExplicitOverrideWitness ==
  /\ lastCall.op = "getRendererType"
  /\ lastCall.fieldName = NameStatus
  /\ lastCall.value = ValueHello
  /\ mapGet(explicitRenderers[lastCall.inst], NameStatusLower) = JsString(TypeUrl)
  /\ lastCall.ret = JsString(TypeUrl)

ResolutionNeverCached ==
  /\ lastCall.op \in {"getRenderer", "render"} =>
       lastCall.ret = getRenderer(explicitRenderers[lastCall.inst],
                                  autoDetectEnabled[lastCall.inst],
                                  lastCall.fieldName, lastCall.value)
  /\ (lastCall.op = "registerRenderer" /\ IsRendererConfig(lastCall.config)) =>
       \A v \in Values :
         getRenderer(explicitRenderers[lastCall.inst], autoDetectEnabled[lastCall.inst],
                     lastCall.fieldName, v) = RendererOfConfig(lastCall.config)
  /\ lastCall.op = "unregisterRenderer" =>
       \A v \in Values :
         getRenderer(explicitRenderers[lastCall.inst], autoDetectEnabled[lastCall.inst],
                     lastCall.fieldName, v)
           = getRenderer(emptyMap, autoDetectEnabled[lastCall.inst], lastCall.fieldName, v)
  /\ \A i \in Instances, f \in FieldNames, v \in Values :
       (lowerCaseOf[f] \notin DOMAIN explicitRenderers[i] /\ ~inStandardTable[f]) =>
          /\ ~autoDetectEnabled[i] =>
               /\ getRenderer(explicitRenderers[i], FALSE, f, v) = TextFn
               /\ getRendererType(explicitRenderers[i], FALSE, f, v) = JsString(TypeText)
          /\ (autoDetectEnabled[i] /\ detectionOf[v].found) =>
               getRendererType(explicitRenderers[i], TRUE, f, v) = JsString(detectionOf[v].type)

\* C4: Unrecognized explicit tag degrades to text.  When the explicit entry
\* of a field is a string that is not one of the six built-in type names,
\* getRenderer returns the text renderer and render does not throw, for
\* every field name and value.
UnrecognizedTagDegradesToText ==
  \A i \in Instances, f \in FieldNames, v \in Values :
    LET map == explicitRenderers[i]
        auto == autoDetectEnabled[i]
        key == lowerCaseOf[f]
    IN  (key \in DOMAIN map /\ map[key].k = "string" /\ ~IsBuiltInTag(map[key])) =>
          /\ getRenderer(map, auto, f, v) = TextFn
          /\ ~render(map, auto, f, v, "locA").threw

\* C5: The registry is total.  For every field name and value, in every
\* reachable registry state, getRenderer returns a callable renderer (a
\* built-in renderer or a registered custom function) and render returns
\* without throwing.
RegistryIsTotal ==
  \A i \in Instances, f \in FieldNames, v \in Values :
    LET map == explicitRenderers[i]
        auto == autoDetectEnabled[i]
        renderer == getRenderer(map, auto, f, v)
    IN  /\ renderer.k = "function"
        /\ renderer \in BuiltinFns \cup {map[key] : key \in DOMAIN map}
        /\ ~render(map, auto, f, v, "locA").threw

\* C6: getRendererType and getRenderer follow the same priority chain.
\* getRendererType returns one of the six built-in type names and
\* getRenderer returns the built-in renderer of exactly that type, except
\* for an explicit custom function, where the type is 'text' and the
\* renderer is the function.
TypeAndRendererAgree ==
  \A i \in Instances, f \in FieldNames, v \in Values :
    LET map == explicitRenderers[i]
        auto == autoDetectEnabled[i]
        explicit == mapGet(map, lowerCaseOf[f])
        type == getRendererType(map, auto, f, v)
        renderer == getRenderer(map, auto, f, v)
    IN  /\ IsBuiltInTag(type)
        /\ IF explicit.k = "function"
           THEN type = JsString(TypeText) /\ renderer = explicit
           ELSE renderer = builtinMapOwn[type.s]

\* Two names spell the same word when letter case is ignored
EqualIgnoringCase(f, g) ==
  /\ Len(f) = Len(g)
  /\ \A k \in 1..Len(f) : toLowerChar(f[k]) = toLowerChar(g[k])

namesEqualIgnoringCase ==
  {p \in FieldNames \X FieldNames : EqualIgnoringCase(p[1], p[2])}

SameLowerCase(f, g) == <<f, g>> \in namesEqualIgnoringCase

\* C7: In every reachable registry state every key of the explicit renderer
\* map is its own lowercase form, and getRenderer, getRendererType,
\* hasExplicitRenderer, registerRenderer and unregisterRenderer treat field
\* names that differ only in letter case as the same field.
KeysLowercaseAndCaseInsensitive ==
  /\ \A i \in Instances : \A key \in DOMAIN explicitRenderers[i] : key = toLowerCase(key)
  /\ \A i \in Instances, f \in FieldNames, g \in FieldNames :
       SameLowerCase(f, g) =>
         /\ hasExplicitRenderer(explicitRenderers[i], f)
              = hasExplicitRenderer(explicitRenderers[i], g)
         /\ \A v \in Values :
              /\ getRenderer(explicitRenderers[i], autoDetectEnabled[i], f, v)
                   = getRenderer(explicitRenderers[i], autoDetectEnabled[i], g, v)
              /\ getRendererType(explicitRenderers[i], autoDetectEnabled[i], f, v)
                   = getRendererType(explicitRenderers[i], autoDetectEnabled[i], g, v)
  /\ lastCall.op = "registerRenderer" =>
       \A g \in FieldNames :
         SameLowerCase(lastCall.fieldName, g) =>
           /\ hasExplicitRenderer(explicitRenderers[lastCall.inst], g)
           /\ mapGet(explicitRenderers[lastCall.inst], lowerCaseOf[g]) = lastCall.config
  /\ lastCall.op = "unregisterRenderer" =>
       \A g \in FieldNames :
         SameLowerCase(lastCall.fieldName, g) =>
           ~hasExplicitRenderer(explicitRenderers[lastCall.inst], g)

\* unregisterRenderer('STATUS') removed the entry stored under 'status'
CaseInsensitiveWitness ==
  /\ lastCall.op = "unregisterRenderer"
  /\ lastCall.fieldName = NameStatusUpper
  /\ lastCall.flag
  /\ ~hasExplicitRenderer(explicitRenderers[lastCall.inst], NameStatus)

\* The lowercase spellings under which the registered names are stored
StoredKeys == {<<"s","t","a","t","u","s">>, <<"w","e","b","s","i","t","e">>}

\* Pairs (name, stored key) equal when letter case is ignored
keyMatchesIgnoringCase ==
  {p \in FieldNames \X StoredKeys : EqualIgnoringCase(p[1], p[2])}

\* Pairs (name, stored key) equal when letter case and leading and trailing
\* whitespace are ignored
keyMatchesIgnoringCaseAndPadding ==
  {p \in FieldNames \X StoredKeys : EqualIgnoringCase(trim(p[1]), trim(p[2]))}

\* C8 as stated: explicit-configuration matching lowercases and trims, so an
\* entry stored for a name is used when resolving any name that equals it
\* after lowercasing and removing leading and trailing whitespace.
ExplicitMatchTrimsNames ==
  \A i \in Instances, f \in FieldNames :
    LET map == explicitRenderers[i]
    IN  \A key \in DOMAIN map :
          ( /\ <<f, key>> \in keyMatchesIgnoringCaseAndPadding
            /\ IsRendererConfig(map[key]) ) =>
            \A v \in Values :
              getRenderer(map, autoDetectEnabled[i], f, v) = RendererOfConfig(map[key])

\* C8 as amended: explicit-configuration matching lowercases only.  An entry
\* stored for a name is used when resolving any name that equals it after
\* lowercasing; a name that differs from it in leading or trailing
\* whitespace is a different field and resolves as if the entry were absent.
ExplicitMatchLowercasesOnly ==
  \A i \in Instances, f \in FieldNames :
    LET map == explicitRenderers[i]
        auto == autoDetectEnabled[i]
    IN  /\ DOMAIN map \subseteq StoredKeys
        /\ \A key \in DOMAIN map :
              ( /\ <<f, key>> \in keyMatchesIgnoringCaseAndPadding
                /\ IsRendererConfig(map[key]) ) =>
                \A v \in Values :
                  IF <<f, key>> \in keyMatchesIgnoringCase
                  THEN getRenderer(map, auto, f, v) = RendererOfConfig(map[key])
                  ELSE getRenderer(map, auto, f, v)
                         = getRenderer(mapDelete(map, key), auto, f, v)

\* getRenderer(' Status ', 'hello') returned the text renderer although
\* 'status' has an explicit url entry
LowercaseOnlyWitness ==
  /\ lastCall.op = "getRenderer"
  /\ lastCall.fieldName = NameStatusPadded
  /\ lastCall.value = ValueHello
  /\ mapGet(explicitRenderers[lastCall.inst], NameStatusLower) = JsString(TypeUrl)
  /\ lastCall.ret = TextFn

\* C9: Registry instances are independent.  A call on one instance never
\* changes the explicit map, the auto-detect flag or any resolve result of
\* another instance, also when both were constructed from the same options.
InstancesIndependent ==
  [][\A j \in Instances :
       (lastCall'.inst # j) =>
         /\ explicitRenderers'[j] = explicitRenderers[j]
         /\ autoDetectEnabled'[j] = autoDetectEnabled[j]
         /\ \A f \in PairNames, v \in PairValues :
              getRenderer(explicitRenderers'[j], autoDetectEnabled'[j], f, v)
                = getRenderer(explicitRenderers[j], autoDetectEnabled[j], f, v)]_vars

\* registerRenderer on r1 left r2 without the entry
IndependentWitness ==
  /\ Instances = {"r1", "r2"}
  /\ lastCall.op = "registerRenderer"
  /\ lastCall.inst = "r1"
  /\ hasExplicitRenderer(explicitRenderers["r1"], lastCall.fieldName)
  /\ ~hasExplicitRenderer(explicitRenderers["r2"], lastCall.fieldName)

AutoDetectOffOnlyExplicit ==
  \A i \in Instances, f \in FieldNames, v \in Values :
    LET map == explicitRenderers[i]
    IN  (~autoDetectEnabled[i] /\ lowerCaseOf[f] \notin DOMAIN map) =>
          /\ getRenderer(map, FALSE, f, v) = TextFn
          /\ getRendererType(map, FALSE, f, v) = JsString(TypeText)

\* detectFieldType has returned for the value of lastCall
Detected == lastCall.op = "detectFieldType" /\ ~lastCall.pending

\* C12: detectFieldType returns {type: boolean, confidence: 1.0} for the
\* native booleans true and false, and for no other input does it return
\* confidence 1.0.
NativeBooleanAloneIsCertain ==
  Detected =>
    IF lastCall.value.k = "boolean"
    THEN lastCall.detection = Detection(TypeBoolean, 100)
    ELSE lastCall.detection.confidence # 100

\* detectFieldType(false) returned boolean with confidence 1.0
NativeBooleanWitness ==
  /\ Detected
  /\ lastCall.value = JsBoolean(FALSE)
  /\ lastCall.detection = Detection(TypeBoolean, 100)

\* The five pattern tests in their stated order, each with the result it
\* stands for, evaluated on a trimmed string
DetectorRules(s) ==
  << [holds |-> isUrl(s), result |-> Detection(TypeUrl, 95)],
     [holds |-> isEmail(s), result |-> Detection(TypeEmail, 90)],
     [holds |-> isArrayString(s), result |-> Detection(TypeArray, 85)],
     [holds |-> isPhone(s), result |-> Detection(TypePhone, 70)],
     [holds |-> isBooleanString(s), result |-> Detection(TypeBoolean, 80)] >>

\* C13: detectFieldType is first-match-wins in the order url, email, array,
\* phone, boolean-string on the trimmed string form of the value: the
\* result is the type and confidence of the earliest test the value
\* satisfies; an empty trimmed value, or one that satisfies no test, gives
\* no detection.
FirstMatchWins ==
  (Detected /\ lastCall.value.k # "boolean") =>
    LET s == trim(String(lastCall.value))
        rules == DetectorRules(s)
        matching == {r \in 1..Len(rules) : rules[r].holds}
    IN  IF s = << >> \/ matching = {}
        THEN lastCall.detection = NoDetection
        ELSE lastCall.detection = rules[SetMin(matching)].result

\* A comma-separated list of URLs passes the url test and the array test
\* and was detected as url
FirstMatchWitness ==
  /\ Detected
  /\ lastCall.value = JsString(<<"h","t","t","p","s",":","/","/","a",".","i","o",","," ","h","t","t","p","s",":","/","/","b",".","i","o">>)
  /\ isUrl(lastCall.value.s)
  /\ isArrayString(lastCall.value.s)
  /\ lastCall.detection = Detection(TypeUrl, 95)

\* The value begins with http://, https:// or www., in any letter case
StartsLikeWebAddress(s) ==
  \/ startsWith(toLowerCase(s), <<"h","t","t","p",":","/","/">>)
  \/ startsWith(toLowerCase(s), <<"h","t","t","p","s",":","/","/">>)
  \/ startsWith(toLowerCase(s), <<"w","w","w",".">>)

AtSigns(s) == {p \in 1..Len(s) : s[p] = "@"}

\* The email shape as C14 words it: no whitespace, exactly one '@', at least
\* one '.' after the '@'
LooseEmailShape(s) ==
  /\ \A p \in 1..Len(s) : ~IsSpace(s[p])
  /\ Cardinality(AtSigns(s)) = 1
  /\ \E q \in 1..Len(s) : s[q] = "." /\ \A p \in AtSigns(s) : p < q

\* The email shape the detector accepts: no whitespace, exactly one '@' with
\* at least one character before it, and after it a '.' that has at least
\* one character on each side
EmailShape(s) ==
  /\ \A p \in 1..Len(s) : ~IsSpace(s[p])
  /\ Cardinality(AtSigns(s)) = 1
  /\ \A p \in AtSigns(s) :
       /\ p > 1
       /\ \E q \in 1..Len(s) : s[q] = "." /\ p + 1 < q /\ q < Len(s)

\* C14 as stated: no value containing '@' is classified url by the
\* bare-domain rule, and every value with no whitespace, exactly one '@' and
\* a '.' after the '@' that does not start with http://, https:// or www.
\* is classified email with confidence 0.9.
EmailBeatsBareDomainLoosely ==
  (Detected /\ lastCall.value.k = "string") =>
    LET s == trim(lastCall.value.s)
    IN  /\ (includes(s, "@") /\ lastCall.detection = Detection(TypeUrl, 95)) =>
             StartsLikeWebAddress(s)
        /\ (LooseEmailShape(s) /\ ~StartsLikeWebAddress(s)) =>
             lastCall.detection = Detection(TypeEmail, 90)

\* C14 as amended: no value containing '@' is classified url by the
\* bare-domain rule, and every value with no whitespace, exactly one '@'
\* preceded by at least one character, and after the '@' a '.' with at
\* least one character on each side, that does not start with http://,
\* https:// or www., is classified email with confidence 0.9, never url.
EmailBeatsBareDomain ==
  (Detected /\ lastCall.value.k = "string") =>
    LET s == trim(lastCall.value.s)
    IN  /\ (includes(s, "@") /\ lastCall.detection = Detection(TypeUrl, 95)) =>
             StartsLikeWebAddress(s)
        /\ (EmailShape(s) /\ ~StartsLikeWebAddress(s)) =>
             lastCall.detection = Detection(TypeEmail, 90)

\* 'first.last@example.com', whose local part matches the bare-domain
\* pattern, was detected as email
EmailBeatsBareDomainWitness ==
  /\ Detected
  /\ lastCall.value = JsString(<<"f","i","r","s","t",".","l","a","s","t","@","e","x","a","m","p","l","e",".","c","o","m">>)
  /\ MatchesDomainPrefix(lastCall.value.s)
  /\ EmailShape(lastCall.value.s)
  /\ lastCall.detection = Detection(TypeEmail, 90)

\* The segments between the commas of s, each without surrounding spaces
CommaSegments(s) == trimAll(split(s, ","))

\* Two or more comma-separated groups of digits only
NumericGrouping(s) ==
  LET parts == CommaSegments(s)
  IN  Len(parts) >= 2 /\ \A p \in 1..Len(parts) : IsAllDigits(parts[p])

\* Two or more non-empty comma-separated segments, at least one of them not
\* a group of digits
MixedCommaList(s) ==
  LET parts == CommaSegments(s)
  IN  /\ Len(parts) >= 2
      /\ \A p \in 1..Len(parts) : Len(parts[p]) > 0
      /\ \E p \in 1..Len(parts) : ~IsAllDigits(parts[p])

TrueStringIsCertain ==
  (Detected /\ lastCall.value = JsString(<<"t","r","u","e">>)) =>
    /\ lastCall.detection = Detection(TypeBoolean, 100)
    /\ lastCall.detection = detectFieldType(JsBoolean(TRUE))

\* C16 as amended: the string 'true', in any letter case and with or
\* without surrounding whitespace, detects as boolean through the
\* boolean-string rule with confidence 0.8: the type is that of the native
\* boolean true and the confidence is lower than the native 1.0.
TrueStringIsBooleanString ==
  ( /\ Detected
    /\ lastCall.value.k = "string"
    /\ EqualIgnoringCase(trim(lastCall.value.s), <<"t","r","u","e">>) ) =>
    /\ lastCall.detection = Detection(TypeBoolean, 80)
    /\ lastCall.detection.type = detectFieldType(JsBoolean(TRUE)).type
    /\ lastCall.detection.confidence < detectFieldType(JsBoolean(TRUE)).confidence

\* The string 'TRUE' was detected as boolean with confidence 0.8
TrueStringWitness ==
  /\ Detected
  /\ lastCall.value = JsString(<<"T","R","U","E">>)
  /\ lastCall.detection = Detection(TypeBoolean, 80)

\* The utility named op has returned for the argument of lastCall
Applied(op) == lastCall.op = op /\ ~lastCall.pending

\* The comma-separated segments of t, trimmed, without the empty ones
NonEmptySegments(t) == SelectSeq(CommaSegments(t), LAMBDA item : item # << >>)

\* C17: parseArrayString follows three tiers and always returns a list.  A
\* trimmed input that starts with '[' and ends with ']' gives the elements
\* of the strict JSON parse; if that parse fails, the elements of the parse
\* after every single quote is replaced by a double quote; if that fails
\* too, or the input is not bracket-delimited, the comma-split segments,
\* trimmed, with empty segments dropped.  "['a', 'b', 'c']" and "a, b, c"
\* both give [a, b, c].
ParseArrayThreeTiers ==
  Applied("parseArrayString") =>
    LET t == trim(lastCall.value.s)
        bracketed == startsWith(t, <<"[">>) /\ endsWith(t, <<"]">>)
        abc == << <<"a">>, <<"b">>, <<"c">> >>
    IN  /\ lastCall.items =
             IF bracketed /\ jsonParseArray(t).ok
             THEN trimAll(jsonParseArray(t).items)
             ELSE IF bracketed /\ jsonParseArray(singleToDoubleQuotes(t)).ok
             THEN trimAll(jsonParseArray(singleToDoubleQuotes(t)).items)
             ELSE NonEmptySegments(t)
        /\ lastCall.value.s = <<"[","'","a","'",","," ","'","b","'",","," ","'","c","'","]">> => lastCall.items = abc
        /\ lastCall.value.s = <<"a",","," ","b",","," ","c">> => lastCall.items = abc

\* "['a', 'b', 'c']" failed the strict parse, passed the parse with
\* converted quotes and gave [a, b, c]
ParseArrayRetryWitness ==
  /\ Applied("parseArrayString")
  /\ lastCall.value.s = <<"[","'","a","'",","," ","'","b","'",","," ","'","c","'","]">>
  /\ ~jsonParseArray(lastCall.value.s).ok
  /\ jsonParseArray(singleToDoubleQuotes(lastCall.value.s)).ok
  /\ lastCall.items = << <<"a">>, <<"b">>, <<"c">> >>

\* With surrounding whitespace removed and letter case ignored, s is one of
\* the given words
SpellsOneOf(s, words) == \E w \in words : EqualIgnoringCase(trim(s), w)

TrueWords == { <<"t","r","u","e">>, <<"y","e","s">>, <<"1">> }

FalseWords == { <<"f","a","l","s","e">>, <<"n","o">>, <<"0">> }

\* C18: parseBooleanString returns true iff the input, trimmed and
\* lowercased, is exactly 'true', 'yes' or '1', and false for every other
\* string; for every string the detector's boolean-string test accepts the
\* boolean renderer shows Yes exactly for {true, yes, 1} and No exactly for
\* {false, no, 0}.
ParseBooleanExact ==
  /\ Applied("parseBooleanString") =>
       lastCall.flag = SpellsOneOf(lastCall.value.s, TrueWords)
  /\ (Applied("booleanRendererFn") /\ isBooleanString(trim(lastCall.value.s))) =>
       /\ ~lastCall.result.threw
       /\ lastCall.result.out.text \in {Yes, No}
       /\ lastCall.result.out.text = Yes <=> SpellsOneOf(lastCall.value.s, TrueWords)
       /\ lastCall.result.out.text = No <=> SpellsOneOf(lastCall.value.s, FalseWords)

\* parseBooleanString(' Yes ') returned true
ParseBooleanWitness ==
  /\ Applied("parseBooleanString")
  /\ lastCall.value.s = <<" ","Y","e","s"," ">>
  /\ lastCall.flag

\* The field name in lower case without underscores, whitespace and hyphens
StrippedName(f) ==
  LET kept == SelectSeq(f, LAMBDA c : ~(c = "_" \/ IsSpace(c) \/ c = "-"))
      g == [i \in 1..Len(kept) |-> toLowerChar(kept[i])]
  IN  SubSeq(g, 1, Len(kept))

UrlNames ==
  { <<"w","e","b","s","i","t","e">>, <<"u","r","l">>, <<"l","i","n","k">>,
    <<"h","o","m","e","p","a","g","e">> }

EmailNames ==
  { <<"e","m","a","i","l">>, <<"m","a","i","l">>,
    <<"e","m","a","i","l","a","d","d","r","e","s","s">> }

PhoneNames ==
  { <<"p","h","o","n","e">>, <<"t","e","l","e","p","h","o","n","e">>, <<"t","e","l">>,
    <<"m","o","b","i","l","e">>, <<"c","e","l","l">>, <<"f","a","x">> }

\* C19: getStandardFieldRenderer is an exact lookup in a closed table.  It
\* returns url, email or phone iff the field name, lowercased with every
\* underscore, whitespace character and hyphen removed, is one of the
\* names of the respective group, and null for every other field name.
StandardLookupExactAndClosed ==
  Applied("getStandardFieldRenderer") =>
    LET n == StrippedName(lastCall.fieldName)
    IN  lastCall.ret =
          IF n \in UrlNames THEN JsString(TypeUrl)
          ELSE IF n \in EmailNames THEN JsString(TypeEmail)
          ELSE IF n \in PhoneNames THEN JsString(TypePhone)
          ELSE JsNull

\* C20: The phone renderer's link target is 'tel:' followed only by the
\* digits of the trimmed value in their original order, preceded by a
\* single '+' iff the trimmed value starts with '+'; the visible text is the
\* trimmed value unmodified.  '(555) 123-4567' gives tel:5551234567.
PhoneTargetDigitsOnly ==
  Applied("phoneRendererFn") =>
    LET phone == trim(String(lastCall.value))
        href == lastCall.result.out.href
        target == SubSeq(href, 5, Len(href))
        plus == startsWith(target, <<"+">>)
        body == IF plus THEN Tail(target) ELSE target
    IN  /\ ~lastCall.result.threw
        /\ lastCall.result.out.tag = "a"
        /\ lastCall.result.out.text = phone
        /\ startsWith(href, <<"t","e","l",":">>)
        /\ plus <=> startsWith(phone, <<"+">>)
        /\ \A i \in 1..Len(body) : IsDigit(body[i])
        /\ body = SelectSeq(phone, IsDigit)
        /\ lastCall.value = JsString(<<"(","5","5","5",")"," ","1","2","3","-","4","5","6","7">>) =>
             href = <<"t","e","l",":","5","5","5","1","2","3","4","5","6","7">>

\* '+1+2' was rendered with the target tel:+12: the leading '+' is kept
\* and the later one removed
PhoneTargetWitness ==
  /\ Applied("phoneRendererFn")
  /\ lastCall.value = JsString(<<"+","1","+","2">>)
  /\ lastCall.result.out.href = <<"t","e","l",":","+","1","2">>
  /\ lastCall.result.out.text = <<"+","1","+","2">>

\* The whole of s is dot-separated labels of letters, digits and hyphens,
\* the last of them two or more letters, and s holds no '@'
WholeBareDomain(s) ==
  LET labels == split(s, ".")
      top == labels[Len(labels)]
  IN  /\ Len(labels) >= 2
      /\ \A p \in 1..Len(labels) :
           /\ Len(labels[p]) > 0
           /\ \A q \in 1..Len(labels[p]) : IsAlnum(labels[p][q]) \/ labels[p][q] = "-"
      /\ Len(top) >= 2
      /\ \A q \in 1..Len(top) : IsLetter(top[q])
      /\ AtSigns(s) = {}

\* C23: the bare-domain rule accepts only strings that are, in full,
\* dot-separated labels ending in a top label of at least two letters and
\* containing no '@': a value that does not start with http://, https:// or
\* www. is classified url only if its whole trimmed form is such a domain,
\* so 'Dr.Smith lives here' and 'St.Louis, MO' are not classified url.
BareDomainMatchesWholeValue ==
  (Detected /\ lastCall.value.k = "string") =>
    LET s == trim(lastCall.value.s)
    IN  (lastCall.detection.type = TypeUrl /\ ~StartsLikeWebAddress(s))
          => WholeBareDomain(s)

\* C24: a value of exactly two non-numeric comma-separated segments, such
\* as 'Austin, TX', is not classified array by detectFieldType.
CityStateIsNotArray ==
  (Detected /\ lastCall.value.k = "string") =>
    LET parts == CommaSegments(trim(lastCall.value.s))
    IN  (/\ Len(parts) = 2
         /\ \A p \in 1..2 : Len(parts[p]) > 0 /\ ~IsAllDigits(parts[p]))
          => lastCall.detection.type # TypeArray

\* s is the decimal string of an integer: digits, no leading zero, an
\* optional minus sign
IsDecimalString(s) ==
  LET digits == IF Len(s) > 0 /\ s[1] = "-" THEN Tail(s) ELSE s
  IN  /\ Len(digits) > 0
      /\ \A p \in 1..Len(digits) : IsDigit(digits[p])
      /\ (Len(digits) > 1 => digits[1] # "0")
      /\ (digits = <<"0">> => s = digits)

\* What C28 says of an integer, from its decimal string
ClassOfInteger(s) ==
  LET digitCount == IF s[1] = "-" THEN Len(s) - 1 ELSE Len(s)
  IN  IF s \in {<<"0">>, <<"1">>} THEN Detection(TypeBoolean, 80)
      ELSE IF digitCount >= 7 /\ digitCount <= 15 THEN Detection(TypePhone, 70)
      ELSE NoDetection

\* C28: detectFieldType classifies a number exactly as it classifies the
\* number's decimal string: 0 and 1 are boolean (0.8), an integer with 7 to
\* 15 digits is phone (0.7), any other integer gets no detection; and the
\* default registry (auto-detect on, no explicit renderer), asked to render
\* a field whose name is no standard name, shows Yes for 1, No for 0 and a
\* tel: link for an integer with 7 to 15 digits.
NumbersDetectedAsDecimalStrings ==
  /\ (Detected /\ lastCall.value.k = "number") =>
       /\ lastCall.detection = detectFieldType(JsString(numberToString(lastCall.value.n)))
       /\ lastCall.detection = ClassOfInteger(numberToString(lastCall.value.n))
  /\ (Detected /\ lastCall.value.k = "string" /\ IsDecimalString(lastCall.value.s)) =>
       lastCall.detection = ClassOfInteger(lastCall.value.s)
  /\ (Applied("render") /\ lastCall.value.k = "number") =>
       LET class == ClassOfInteger(numberToString(lastCall.value.n))
           out == lastCall.result.out
       IN  /\ ~lastCall.result.threw
           /\ class.type = TypeBoolean =>
                /\ out.tag = "span"
                /\ out.text = IF lastCall.value.n = 1 THEN Yes ELSE No
           /\ class.type = TypePhone =>
                /\ out.tag = "a"
                /\ startsWith(out.href, <<"t","e","l",":">>)

\* The number 5551234 in the field 'notes' was rendered as a link to
\* tel:5551234
NumberRenderedAsPhoneWitness ==
  /\ Applied("render")
  /\ lastCall.value = JsNumber(5551234)
  /\ lastCall.ret = PhoneFn
  /\ lastCall.result.out.href = <<"t","e","l",":","5","5","5","1","2","3","4">>

\* The strings of the elements of a native array, trimmed, without the
\* empty ones, in order
RECURSIVE NonEmptyElements(_)
NonEmptyElements(elements) ==
  IF elements = << >> THEN << >>
  ELSE LET item == trim(String(Head(elements)))
       IN  (IF item = << >> THEN << >> ELSE <<item>>) \o NonEmptyElements(Tail(elements))

\* C25: the array renderer chooses its presentation by item count: zero
\* items give the placeholder '-', exactly one item is rendered as plain
\* inline text without list markup, two or more items as an unordered list
\* with one entry per item in input order.  The items of a string are those
\* of parseArrayString on the trimmed string (none for an empty or
\* whitespace-only value); the items of a native array are its elements
\* stringified and trimmed, with the empty ones dropped.
ArrayPresentationByItemCount ==
  Applied("arrayRendererFn") =>
    LET value == lastCall.value
        items == IF value.k = "array" THEN NonEmptyElements(value.a)
                 ELSE IF trim(value.s) = << >> THEN << >>
                 ELSE parseArrayString(trim(value.s))
        out == lastCall.result.out
    IN  /\ ~lastCall.result.threw
        /\ lastCall.items = items
        /\ Len(items) = 0 => out.tag = "span" /\ out.text = <<"-">> /\ out.items = << >>
        /\ Len(items) = 1 => out.tag = "span" /\ out.text = items[1] /\ out.items = << >>
        /\ Len(items) >= 2 => out.tag = "ul" /\ out.items = items

\* The native array [' b ', '', 7] was rendered as the list b, 7
ArrayPresentationWitness ==
  /\ Applied("arrayRendererFn")
  /\ lastCall.value = JsArray(<<JsString(<<" ","b"," ">>), JsString(<< >>), JsNumber(7)>>)
  /\ lastCall.result.out.tag = "ul"
  /\ lastCall.result.out.items = << <<"b">>, <<"7">> >>

\* C29: every item returned by parseArrayString is a trimmed, non-empty
\* string, on all three parsing tiers; hence the array renderer shows the
\* '-' placeholder whenever a string value contains no non-empty item, and
\* never renders an empty inline value or an empty list entry.
ParsedItemsTrimmedNonEmpty ==
  /\ Applied("parseArrayString") =>
       \A p \in 1..Len(lastCall.items) :
         lastCall.items[p] # << >> /\ trim(lastCall.items[p]) = lastCall.items[p]
  /\ (Applied("arrayRendererFn") /\ lastCall.value.k = "string") =>
       LET out == lastCall.result.out
       IN  /\ out.tag = "span" => out.text # << >>
           /\ \A p \in 1..Len(out.items) : out.items[p] # << >>

\* s starts with http:// or https://, in any letter case
StartsWithHttpScheme(s) ==
  \/ Len(s) >= 7 /\ toLowerCase(SubSeq(s, 1, 7)) = <<"h","t","t","p",":","/","/">>
  \/ Len(s) >= 8 /\ toLowerCase(SubSeq(s, 1, 8)) = <<"h","t","t","p","s",":","/","/">>

\* C26: the URL renderer's href is the trimmed value unchanged when it
\* starts with http:// or https:// (in any letter case) and 'https://'
\* followed by the trimmed value otherwise; normalizing the href again
\* returns it unchanged, and the href always starts with an http(s) scheme.
UrlHrefNormalized ==
  Applied("urlRendererFn") =>
    LET trimmed == trim(String(lastCall.value))
        href == lastCall.result.out.href
    IN  /\ ~lastCall.result.threw
        /\ lastCall.result.out.tag = "a"
        /\ href = IF StartsWithHttpScheme(trimmed) THEN trimmed
                  ELSE <<"h","t","t","p","s",":","/","/">> \o trimmed
        /\ normalizeUrl(href) = href
        /\ StartsWithHttpScheme(href)

\* ' javascript:a.io' was given the href https://javascript:a.io
UrlHrefWitness ==
  /\ Applied("urlRendererFn")
  /\ lastCall.value = JsString(<<" ","j","a","v","a","s","c","r","i","p","t",":","a",".","i","o">>)
  /\ lastCall.result.out.href =
       <<"h","t","t","p","s",":","/","/","j","a","v","a","s","c","r","i","p","t",":","a",".","i","o">>

\* The operations that only read the registry
ReadOnlyOperations ==
  { "getRenderer", "getRendererType", "render", "hasExplicitRenderer",
    "getRegisteredFields", "isAutoDetectEnabled" }

\* Every entry of every explicit map is the same before and after the step,
\* except possibly the entry of instance i under key
OnlyEntryMayChange(i, key) ==
  \A j \in Instances :
    \A k \in (DOMAIN explicitRenderers[j]) \cup (DOMAIN explicitRenderers'[j]) :
      (j # i \/ k # key) =>
        /\ k \in DOMAIN explicitRenderers[j]
        /\ k \in DOMAIN explicitRenderers'[j]
        /\ explicitRenderers'[j][k] = explicitRenderers[j][k]

\* C27: registry operations change only their own piece of state.
\* registerRenderer(f, c) and unregisterRenderer(f) change at most the
\* explicit-map entry keyed by the lowercase of f and leave every other
\* entry and the auto-detect flag unchanged (unregistering an absent name
\* changes nothing); setAutoDetect changes only the flag; getRenderer,
\* getRendererType, render, hasExplicitRenderer, getRegisteredFields and
\* isAutoDetectEnabled change nothing.
OperationsChangeOnlyTheirState ==
  [][ LET call == lastCall'
          key == toLowerCase(call.fieldName)
      IN  /\ call.op \in {"registerRenderer", "unregisterRenderer"} =>
                /\ OnlyEntryMayChange(call.inst, key)
                /\ autoDetectEnabled' = autoDetectEnabled
          /\ (call.op = "unregisterRenderer" /\ key \notin DOMAIN explicitRenderers[call.inst]) =>
                explicitRenderers' = explicitRenderers
          /\ call.op = "setAutoDetect" =>
                /\ explicitRenderers' = explicitRenderers
                /\ \A j \in Instances \ {call.inst} :
                     autoDetectEnabled'[j] = autoDetectEnabled[j]
          /\ call.op \in ReadOnlyOperations =>
                /\ explicitRenderers' = explicitRenderers
                /\ autoDetectEnabled' = autoDetectEnabled
    ]_vars

\* unregisterRenderer removed an entry and another entry is still there
UnregisterKeepsOthersWitness ==
  /\ lastCall.op = "unregisterRenderer"
  /\ lastCall.flag
  /\ toLowerCase(lastCall.fieldName) \notin DOMAIN explicitRenderers[lastCall.inst]
  /\ DOMAIN explicitRenderers[lastCall.inst] # {}

\* The feature-toggle parameters named by C22
FeatureToggles == {"hideSearch", "hideTable", "hideFilters", "hideGeolocation"}

\* C22: parseURLConfig turns every feature-toggle query parameter that is
\* present (hideSearch, hideTable, hideFilters, hideGeolocation) into a
\* boolean embed option that is true iff the raw value is the string
\* 'true', and leaves out every toggle that is absent; with hideSearch=true,
\* hideTable=false, hideFilters=true, hideGeolocation=false (and type=mock)
\* the embedOptions are exactly those four booleans.
FeatureTogglesParsed ==
  Applied("parseURLConfig") =>
    LET params == lastCall.params
        embedOptions == IF "embedOptions" \in DOMAIN lastCall.object
                        THEN lastCall.object["embedOptions"] ELSE emptyMap
    IN  /\ \A toggle \in FeatureToggles :
             IF toggle \in DOMAIN params
             THEN /\ toggle \in DOMAIN embedOptions
                  /\ embedOptions[toggle] = JsBoolean(params[toggle] = <<"t","r","u","e">>)
             ELSE toggle \notin DOMAIN embedOptions
        /\ params = ("type" :> <<"m","o","c","k">>) @@ ("hideSearch" :> <<"t","r","u","e">>)
                      @@ ("hideTable" :> <<"f","a","l","s","e">>)
                      @@ ("hideFilters" :> <<"t","r","u","e">>)
                      @@ ("hideGeolocation" :> <<"f","a","l","s","e">>)
             => embedOptions = ("hideSearch" :> JsBoolean(TRUE)) @@ ("hideTable" :> JsBoolean(FALSE))
                                 @@ ("hideFilters" :> JsBoolean(TRUE))
                                 @@ ("hideGeolocation" :> JsBoolean(FALSE))

\* The admitted requests of a client that are less than WindowMs old
AdmittedInWindow(ip) == IF ip \in DOMAIN admitted THEN admitted[ip] ELSE << >>

\* The timestamps the limiter holds for a client that are less than
\* WindowMs old
HeldInWindow(ip) ==
  IF ip \in DOMAIN rateLimiter
  THEN SelectSeq(rateLimiter[ip], LAMBDA time : clock - time < WindowMs)
  ELSE << >>

\* C21: the rate limiter admits at most MaxRequests (100 in the handler)
\* GET requests per client IP in any window of WindowMs: a GET request is
\* answered 429 exactly when MaxRequests admitted requests of its IP lie
\* within the preceding WindowMs; rejected requests are not recorded,
\* requests of one IP never count against another IP, and an IP is admitted
\* again as soon as fewer than MaxRequests admitted timestamps remain inside
\* the window.
RateLimitPerClientWindow ==
  /\ \A ip \in (DOMAIN admitted) \cup (DOMAIN rateLimiter) :
       /\ Len(AdmittedInWindow(ip)) <= MaxRequests
       /\ HeldInWindow(ip) = AdmittedInWindow(ip)
  /\ (lastCall.op = "handler" /\ lastCall.request.method = "GET") =>
       LET ip == clientIpOf(lastCall.request)
           rejected == lastCall.ret = JsNumber(429)
           before == Len(AdmittedInWindow(ip)) - (IF rejected THEN 0 ELSE 1)
       IN  rejected <=> before >= MaxRequests

\* A client was answered 429 while another client had no request counted
RateLimitedWitness ==
  /\ lastCall.op = "handler"
  /\ lastCall.ret = JsNumber(429)
  /\ clock > 0
  /\ clientIpOf(lastCall.request) = "10.0.0.1"
  /\ AdmittedInWindow("unknown") = << >>

\* A client that had been answered 429 was admitted again after the oldest
\* of its requests left the window
ReadmittedWitness ==
  /\ lastCall.op = "handler"
  /\ lastCall.request.method = "GET"
  /\ lastCall.ret # JsNumber(429)
  /\ Len(AdmittedInWindow(clientIpOf(lastCall.request))) = MaxRequests
  /\ clock >= WindowMs

\* The location passes the three filters, as the store's documentation of
\* FilterState reads: the lower-case query is part of one of its texts, its
\* lower-case category is selected, and it is within maxDistance of the
\* user
PassesFilters(loc, filters) ==
  LET query == toLowerCase(filters.searchQuery)
      texts == {loc.name, loc.description, loc.category}
                 \cup {part.s : part \in {v \in {loc.address.street, loc.address.city,
                                                 loc.address.state, loc.address.country} :
                                            v.k = "string"}}
                 \cup {String(loc.customFields[p]) : p \in 1..Len(loc.customFields)}
      distance == filters.distanceFilter
  IN  /\ query # << >> => \E text \in texts : includesText(toLowerCase(text), query)
      /\ filters.selectedCategories # << >> =>
           \E p \in 1..Len(filters.selectedCategories) :
             filters.selectedCategories[p] = toLowerCase(loc.category)
      /\ (distance.enabled /\ distance.userLocation.defined) =>
           calculateDistance(loc, distance.userLocation) <= distance.maxDistance

\* result is what the filters make of locations: the locations that pass,
\* in their order; with the distance filter on, each with its distance and
\* ordered by distance, equal distances in their order
IsFilterResult(result, locations, filters) ==
  LET passing == SelectSeq(locations, LAMBDA loc : PassesFilters(loc, filters))
      distance == filters.distanceFilter
      n == Len(passing)
  IN  /\ Len(result) = n
      /\ IF distance.enabled /\ distance.userLocation.defined
         THEN \E order \in {f \in [1..n -> 1..n] : \A a, b \in 1..n : a # b => f[a] # f[b]} :
                /\ \A p \in 1..n :
                     result[p] = [passing[order[p]] EXCEPT
                                    !.hasDistance = TRUE,
                                    !.distance = calculateDistance(passing[order[p]],
                                                                   distance.userLocation)]
                /\ \A p, q \in 1..n :
                     p < q => \/ result[p].distance < result[q].distance
                              \/ /\ result[p].distance = result[q].distance
                                 /\ order[p] < order[q]
         ELSE result = passing

\* C30: after any sequence of store calls, filteredLocations is the result
\* of applying the current filters (search query, selected categories,
\* enabled distance filter) to the current locations, so it holds current
\* locations only and is never stale; every setFilters call resets
\* currentPage to 1, while setLocations and setCurrentPage leave the
\* filters unchanged.
FilteredLocationsCurrent ==
  [][ /\ IsFilterResult(store'.filteredLocations, store'.locations, store'.filters)
      /\ \A p \in 1..Len(store'.filteredLocations) :
           \E q \in 1..Len(store'.locations) :
             store'.filteredLocations[p].id = store'.locations[q].id
      /\ lastCall'.op = "setFilters" => store'.currentPage = 1
      /\ lastCall'.op \in {"setLocations", "setCurrentPage"} => store'.filters = store.filters
    ]_vars

\* setLocations replaced the locations while a distance filter was on: the
\* filtered locations are the new ones within reach, nearest first
FilteredLocationsWitness ==
  /\ lastCall.op = "setLocations"
  /\ store.filters.distanceFilter.enabled
  /\ store.filters.distanceFilter.userLocation.defined
  /\ store.currentPage = 2
  /\ Len(store.locations) = 3
  /\ Len(store.filteredLocations) = 2
  /\ store.filteredLocations[1].id = "1"
  /\ store.locations[1].id = "3"

==============================================================================
